---- MODULE Spec2Model ----
(***************************************************************************)
(* Filter-and-batch-command engine of the console (console_cmds.cpp):      *)
(* symbol resolver, tokenizer, filter chain builder and entity matchers.   *)
(* C strings are modelled as sequences of character codes (ASCII); the     *)
(* terminating NUL is the code 0 read past the last element.               *)
(***************************************************************************)
EXTENDS Integers, Sequences, FiniteSets, TLC

VARIABLES
  pc,              \* "call" before the function under study runs, "done" after
  arg_id,          \* GetStringInfo: the string to look for (parameter id)
  caller,          \* which wrapper called GetStringInfo
  ret_cmd,         \* GetStringInfo: the StringInfo returned
  groups,          \* the group pool in index order, each [owner, name]
  _local_company,  \* the company of the console user
  arg_name,        \* GetGroupByName: the name looked for (parameter name)
  stack_buf,       \* GetGroupByName: what char buf[512] holds on entry
  ret_g,           \* GetGroupByName: the group returned (pool position or NULL)
  arg_match_id,    \* CheckMatch(const char*, int): the token (parameter match_id)
  arg_mask,        \* CheckMatch: the selector's mask (parameter mask)
  arg_argv,        \* CheckMatch(byte&, char**&, int): argv on entry, argc = Len
  ret_key,         \* CheckMatch(const char*, int): the local match_key
  ret_m,           \* CheckMatch: the MatchInfo chain returned, head first
  ret_argv,        \* CheckMatch(byte&, char**&, int): argv on return
  ret_argc,        \* CheckMatch(byte&, char**&, int): argc on return
  matcher,         \* which of VehicleMatches, TownMatches, IndustryMatches runs
  arg_entity,      \* the matchers: the vehicle, town or industry (v, t, i)
  arg_m,           \* the matchers: the MatchInfo chain (parameter m)
  with_assert,     \* the matchers: whether the build compiles asserts in
  ret_matches,     \* the matchers: how the call ended
  selector,        \* the dispatchers: the console command that is run
  _game_mode,      \* the dispatchers: "GM_NORMAL" or "GM_EDITOR"
  entities,        \* the dispatchers: the towns, the industries or sort_list
  deleted,         \* the dispatchers: positions of entities whose entity is destroyed
  con_argv,        \* the dispatchers: argv after CheckMatch, argc = Len
  con_m,           \* the dispatchers: the chain m
  m_deletes,       \* the dispatchers: how often "delete m" was executed
  con_cmd,         \* the dispatchers: the descriptor cmd of the command
  group_list,      \* ConVehicleCommand: list_type and object_id
  loop_i,          \* the dispatchers: position in entities of the next round
  matched,         \* the dispatchers: the local matched
  affected,        \* the dispatchers: the local affected
  invoked,         \* the dispatchers: the actions invoked, [target, ret] each
  effects_log,     \* the dispatchers: what the actions did to the game
  evaluated,       \* the dispatchers: positions of entities given to the loop body
  console,         \* the dispatchers: the messages printed
  con_ret          \* the dispatchers: the value returned, or how it aborted

resolveVars == <<arg_id, caller, ret_cmd>>
groupVars == <<groups, _local_company, arg_name, stack_buf, ret_g>>
matchVars == <<arg_match_id, arg_mask, arg_argv, ret_key, ret_m, ret_argv, ret_argc>>
entityVars == <<matcher, arg_entity, arg_m, with_assert, ret_matches>>
dispatchVars ==
  <<selector, _game_mode, entities, deleted, con_argv, con_m, m_deletes, con_cmd,
    group_list, loop_i, matched, affected, invoked, effects_log, evaluated, console,
    con_ret>>
vars == <<pc, resolveVars, groupVars, matchVars, entityVars, dispatchVars>>

LIST_ALIAS == -1
\* enum VehicleCommand (console_cmds.cpp:1928-1949)
VEHICLE_COMMAND_ALIAS == -1
VEHICLE_INVALID_COMMAND == 0
VEHICLE_CENTER == 1
VEHICLE_CLONE == 2
VEHICLE_CLONE_SHARED == 3
VEHICLE_DEPOT == 4
TRAIN_IGNORE == 5
TRAIN_WAGON_INFO == 6
TRAIN_SELL_WAGON == 7
VEHICLE_INFO == 8
VEHICLE_LEAVE_STATION == 9
VEHICLE_OPEN == 10
VEHICLE_SELL == 11
VEHICLE_SERVICE == 12
VEHICLE_SKIP_ORDER == 13
VEHICLE_START == 14
VEHICLE_STOP == 15
VEHICLE_TURN == 16
VEHICLE_INTERVAL == 17
VEHICLE_UNDEPOT == 18
VEHICLE_UNSERVICE == 19
VEHICLE_COUNT == 20
\* enum TownCommand (console_cmds.cpp:1956-1973)
TOWN_COMMAND_ALIAS == -1
TOWN_INVALID_COMMAND == 0
TOWN_CENTER == 1
TOWN_INFO == 2
TOWN_PRINT == 3
TOWN_OPEN == 4
TOWN_OPEN_AUTH == 5
TOWN_ACTION_AD_SMALL == 6
TOWN_ACTION_AD_MEDIUM == 7
TOWN_ACTION_AD_LARGE == 8
TOWN_ACTION_ROAD == 9
TOWN_ACTION_STATUE == 10
TOWN_ACTION_FUND == 11
TOWN_ACTION_EXCLUSIVE == 12
TOWN_ACTION_BRIBE == 13
TOWN_EXPAND == 14
TOWN_DELETE == 15
TOWN_COUNT == 16
\* enum IndustryCommand (console_cmds.cpp:1983-1989)
INDUSTRY_COMMAND_ALIAS == -1
INDUSTRY_INVALID_COMMAND == 0
INDUSTRY_CENTER == 1
INDUSTRY_INFO == 2
INDUSTRY_OPEN == 3
INDUSTRY_COUNT == 4
INDUSTRY_DELETE == 5
\* enum MatchType (console_cmds.cpp:1997-2040)
MATCH_ALIAS == -1
MATCH_INVALID == 0
MATCH_GENERIC == 1
MATCH_ALL == 2
MATCH_GROUP == 3
MATCH_CRASHED == 4
MATCH_LENGTH == 5
MATCH_WAGONS == 6
MATCH_ORDERS == 7
MATCH_SPEED == 8
MATCH_AGE == 9
MATCH_BREAKDOWNS == 10
MATCH_MAXSPEED == 11
MATCH_PROFIT == 12
MATCH_PROFIT_THIS == 13
MATCH_PROFIT_LAST == 14
MATCH_SERVICE == 15
MATCH_IN_DEPOT == 16
MATCH_BROKEN == 17
MATCH_TOWN_POPULATION == 18
MATCH_TOWN_HOUSES == 19
MATCH_TOWN_RATING == 20
MATCH_TOWN_STATUE == 21
MATCH_TOWN_NO_STATUE == 22
MATCH_TOWN_FUNDING == 23
MATCH_TOWN_ROADWORKS == 24
MATCH_TOWN_EXCLUSIVE_COMPANY == 25
MATCH_TOWN_EXCLUSIVE_MONTHS == 26
MATCH_TOWN_EXCLUSIVE_MY_MONTHS == 27
MATCH_TOWN_EXCLUSIVE_OTHERS_MONTHS == 28
MATCH_TOWN_UNWANTED_MONTHS == 29
MATCH_TOWN_NOISE == 30
MATCH_TOWN_NOISE_REMAIN == 31
MATCH_TOWN_NOISE_MAX == 32
MATCH_INDUSTRY_PRODUCTION == 33
MATCH_INDUSTRY_PRODUCTION_THIS == 34
MATCH_INDUSTRY_PERCENT == 35
MATCH_INDUSTRY_PERCENT_THIS == 36
\* enum MatchSubtype (console_cmds.cpp:2048-2054)
MATCH_NONE == 0
MATCH_NOT_EQUAL == 1
MATCH_EQUAL == 2
MATCH_LESS == 3
MATCH_LESS_OR_EQUAL == 4
MATCH_GREATER_OR_EQUAL == 5
MATCH_GREATER == 6
\* Bitmask for StringInfo<T>.req (console_cmds.cpp:2086-2101)
FOR_TRAIN == 1
FOR_ROAD == 2
FOR_SHIP == 4
FOR_AIRCRAFT == 8
NOT_CRASHED == 16
IN_DEPOT == 32
STOPPED == 64
IS_ALIAS == 128
FOR_TOWN == 256
FOR_INDUSTRY == 512
USE_PRINTF == 1024
IN_EDITOR == 2048
FOR_VEHICLE == FOR_TRAIN + FOR_ROAD + FOR_SHIP + FOR_AIRCRAFT
\* veh_commands (console_cmds.cpp:2123-2168)
veh_commands == <<
  [id |-> VEHICLE_COMMAND_ALIAS, name |-> <<99,101,110,116,114,101>>, params |-> 0, req |-> 0],  \* "centre"
  [id |-> VEHICLE_CENTER, name |-> <<99,101,110,116,101,114>>, params |-> 0, req |-> FOR_VEHICLE],  \* "center"
  [id |-> VEHICLE_CLONE, name |-> <<99,108,111,110,101>>, params |-> 0, req |-> FOR_VEHICLE + IN_DEPOT],  \* "clone"
  [id |-> VEHICLE_CLONE_SHARED, name |-> <<99,108,111,110,101,95,115,104,97,114,101,100>>, params |-> 0, req |-> FOR_VEHICLE + IN_DEPOT],  \* "clone_shared"
  [id |-> VEHICLE_COUNT, name |-> <<99,111,117,110,116>>, params |-> 0, req |-> FOR_VEHICLE],  \* "count"
  [id |-> VEHICLE_DEPOT, name |-> <<100,101,112,111,116>>, params |-> 0, req |-> FOR_VEHICLE + NOT_CRASHED],  \* "depot"
  [id |-> TRAIN_IGNORE, name |-> <<105,103,110,111,114,101>>, params |-> 0, req |-> FOR_TRAIN + NOT_CRASHED],  \* "ignore"
  [id |-> VEHICLE_INFO, name |-> <<105,110,102,111>>, params |-> 0, req |-> FOR_VEHICLE],  \* "info"
  [id |-> VEHICLE_INTERVAL, name |-> <<105,110,116,101,114,118,97,108>>, params |-> 1, req |-> FOR_VEHICLE + NOT_CRASHED],  \* "interval"
  [id |-> VEHICLE_LEAVE_STATION, name |-> <<108,101,97,118,101>>, params |-> 0, req |-> FOR_VEHICLE + NOT_CRASHED],  \* "leave"
  [id |-> VEHICLE_COMMAND_ALIAS, name |-> <<115,104,111,119>>, params |-> 0, req |-> 0],  \* "show"
  [id |-> VEHICLE_OPEN, name |-> <<111,112,101,110>>, params |-> 0, req |-> FOR_VEHICLE],  \* "open"
  [id |-> VEHICLE_SELL, name |-> <<115,101,108,108>>, params |-> 0, req |-> FOR_VEHICLE + STOPPED + IN_DEPOT],  \* "sell"
  [id |-> VEHICLE_SERVICE, name |-> <<115,101,114,118,105,99,101>>, params |-> 0, req |-> FOR_VEHICLE + NOT_CRASHED],  \* "service"
  [id |-> VEHICLE_SKIP_ORDER, name |-> <<115,107,105,112>>, params |-> 0, req |-> FOR_VEHICLE + NOT_CRASHED],  \* "skip"
  [id |-> VEHICLE_COMMAND_ALIAS, name |-> <<103,111>>, params |-> 0, req |-> 0],  \* "go"
  [id |-> VEHICLE_START, name |-> <<115,116,97,114,116>>, params |-> 0, req |-> FOR_VEHICLE + NOT_CRASHED],  \* "start"
  [id |-> VEHICLE_STOP, name |-> <<115,116,111,112>>, params |-> 0, req |-> FOR_VEHICLE + NOT_CRASHED],  \* "stop"
  [id |-> VEHICLE_COMMAND_ALIAS, name |-> <<114,101,118,101,114,115,101>>, params |-> 0, req |-> 0],  \* "reverse"
  [id |-> VEHICLE_TURN, name |-> <<116,117,114,110>>, params |-> 0, req |-> FOR_TRAIN + FOR_ROAD + NOT_CRASHED],  \* "turn"
  [id |-> VEHICLE_UNSERVICE, name |-> <<117,110,115,101,114,118,105,99,101>>, params |-> 0, req |-> FOR_VEHICLE + NOT_CRASHED],  \* "unservice"
  [id |-> VEHICLE_UNDEPOT, name |-> <<117,110,100,101,112,111,116>>, params |-> 0, req |-> FOR_VEHICLE + NOT_CRASHED],  \* "undepot"
  [id |-> TRAIN_WAGON_INFO, name |-> <<119,105,110,102,111>>, params |-> 0, req |-> FOR_TRAIN],  \* "winfo"
  [id |-> TRAIN_SELL_WAGON, name |-> <<119,115,101,108,108>>, params |-> 1, req |-> FOR_TRAIN + STOPPED + IN_DEPOT]  \* "wsell"
>>
\* town_commands (console_cmds.cpp:2174-2214)
town_commands == <<
  [id |-> TOWN_COMMAND_ALIAS, name |-> <<99,101,110,116,114,101>>, params |-> 0, req |-> 0],  \* "centre"
  [id |-> TOWN_CENTER, name |-> <<99,101,110,116,101,114>>, params |-> 0, req |-> FOR_TOWN],  \* "center"
  [id |-> TOWN_COUNT, name |-> <<99,111,117,110,116>>, params |-> 0, req |-> FOR_TOWN],  \* "count"
  [id |-> TOWN_INFO, name |-> <<105,110,102,111>>, params |-> 0, req |-> FOR_TOWN],  \* "info"
  [id |-> TOWN_PRINT, name |-> <<112,114,105,110,116>>, params |-> 0, req |-> FOR_TOWN],  \* "print"
  [id |-> TOWN_COMMAND_ALIAS, name |-> <<115,104,111,119>>, params |-> 0, req |-> 0],  \* "show"
  [id |-> TOWN_OPEN, name |-> <<111,112,101,110>>, params |-> 0, req |-> FOR_TOWN],  \* "open"
  [id |-> TOWN_OPEN_AUTH, name |-> <<97,117,116,104>>, params |-> 0, req |-> FOR_TOWN],  \* "auth"
  [id |-> TOWN_COMMAND_ALIAS, name |-> <<115,109,97,108,108,95,97,100>>, params |-> 0, req |-> 0],  \* "small_ad"
  [id |-> TOWN_ACTION_AD_SMALL, name |-> <<97,100,95,115,109,97,108,108>>, params |-> 0, req |-> FOR_TOWN],  \* "ad_small"
  [id |-> TOWN_COMMAND_ALIAS, name |-> <<109,101,100,105,117,109,95,97,100>>, params |-> 0, req |-> 0],  \* "medium_ad"
  [id |-> TOWN_ACTION_AD_MEDIUM, name |-> <<97,100,95,109,101,100,105,117,109>>, params |-> 0, req |-> FOR_TOWN],  \* "ad_medium"
  [id |-> TOWN_COMMAND_ALIAS, name |-> <<108,97,114,103,101,95,97,100>>, params |-> 0, req |-> 0],  \* "large_ad"
  [id |-> TOWN_ACTION_AD_LARGE, name |-> <<97,100,95,108,97,114,103,101>>, params |-> 0, req |-> FOR_TOWN],  \* "ad_large"
  [id |-> TOWN_COMMAND_ALIAS, name |-> <<114,101,99,111,110,115,116,114,117,99,116,105,111,110>>, params |-> 0, req |-> 0],  \* "reconstruction"
  [id |-> TOWN_ACTION_ROAD, name |-> <<114,111,97,100>>, params |-> 0, req |-> FOR_TOWN],  \* "road"
  [id |-> TOWN_ACTION_STATUE, name |-> <<115,116,97,116,117,101>>, params |-> 0, req |-> FOR_TOWN],  \* "statue"
  [id |-> TOWN_COMMAND_ALIAS, name |-> <<98,117,105,108,100,105,110,103>>, params |-> 0, req |-> 0],  \* "building"
  [id |-> TOWN_ACTION_FUND, name |-> <<102,117,110,100>>, params |-> 0, req |-> FOR_TOWN],  \* "fund"
  [id |-> TOWN_ACTION_EXCLUSIVE, name |-> <<101,120,99,108,117,115,105,118,101>>, params |-> 0, req |-> FOR_TOWN],  \* "exclusive"
  [id |-> TOWN_ACTION_BRIBE, name |-> <<98,114,105,98,101>>, params |-> 0, req |-> FOR_TOWN],  \* "bribe"
  [id |-> TOWN_EXPAND, name |-> <<101,120,112,97,110,100>>, params |-> 0, req |-> FOR_TOWN + IN_EDITOR],  \* "expand"
  [id |-> TOWN_DELETE, name |-> <<100,101,108,101,116,101>>, params |-> 0, req |-> FOR_TOWN + IN_EDITOR]  \* "delete"
>>
\* ind_commands (console_cmds.cpp:2220-2233)
ind_commands == <<
  [id |-> INDUSTRY_COMMAND_ALIAS, name |-> <<99,101,110,116,114,101>>, params |-> 0, req |-> 0],  \* "centre"
  [id |-> INDUSTRY_CENTER, name |-> <<99,101,110,116,101,114>>, params |-> 0, req |-> FOR_INDUSTRY],  \* "center"
  [id |-> INDUSTRY_COUNT, name |-> <<99,111,117,110,116>>, params |-> 0, req |-> FOR_INDUSTRY],  \* "count"
  [id |-> INDUSTRY_INFO, name |-> <<105,110,102,111>>, params |-> 0, req |-> FOR_INDUSTRY],  \* "info"
  [id |-> INDUSTRY_COMMAND_ALIAS, name |-> <<115,104,111,119>>, params |-> 0, req |-> 0],  \* "show"
  [id |-> INDUSTRY_OPEN, name |-> <<111,112,101,110>>, params |-> 0, req |-> FOR_INDUSTRY],  \* "open"
  [id |-> INDUSTRY_DELETE, name |-> <<100,101,108,101,116,101>>, params |-> 0, req |-> FOR_INDUSTRY]  \* "delete"
>>
\* match_nn_info (console_cmds.cpp:2238-2253)
match_nn_info == <<
  [id |-> MATCH_ALL, name |-> <<97,108,108>>, params |-> 0, req |-> FOR_VEHICLE + FOR_INDUSTRY + FOR_TOWN + USE_PRINTF],  \* "all"
  [id |-> MATCH_ALL, name |-> <<42>>, params |-> 0, req |-> FOR_VEHICLE + FOR_INDUSTRY + FOR_TOWN + USE_PRINTF],  \* "*"
  [id |-> MATCH_BROKEN, name |-> <<98,114,111,107,101,110>>, params |-> 0, req |-> FOR_VEHICLE + USE_PRINTF],  \* "broken"
  [id |-> MATCH_CRASHED, name |-> <<99,114,97,115,104,101,100>>, params |-> 0, req |-> FOR_VEHICLE + USE_PRINTF],  \* "crashed"
  [id |-> MATCH_IN_DEPOT, name |-> <<100,101,112,111,116>>, params |-> 0, req |-> FOR_VEHICLE + USE_PRINTF],  \* "depot"
  [id |-> MATCH_TOWN_STATUE, name |-> <<115,116,97,116,117,101>>, params |-> 0, req |-> FOR_TOWN],  \* "statue"
  [id |-> MATCH_TOWN_NO_STATUE, name |-> <<110,111,95,115,116,97,116,117,101>>, params |-> 0, req |-> FOR_TOWN]  \* "no_statue"
>>
\* match_info (console_cmds.cpp:2258-2323)
match_info == <<
  [id |-> MATCH_AGE, name |-> <<97,103,101>>, params |-> 0, req |-> FOR_VEHICLE],  \* "age"
  [id |-> MATCH_BREAKDOWNS, name |-> <<98,114,101,97,107,100,111,119,110,115>>, params |-> 0, req |-> FOR_VEHICLE],  \* "breakdowns"
  [id |-> MATCH_LENGTH, name |-> <<108,101,110>>, params |-> 0, req |-> FOR_TRAIN],  \* "len"
  [id |-> MATCH_MAXSPEED, name |-> <<109,97,120,115,112,101,101,100>>, params |-> 0, req |-> FOR_VEHICLE],  \* "maxspeed"
  [id |-> MATCH_ORDERS, name |-> <<111,114,100,101,114,115>>, params |-> 0, req |-> FOR_VEHICLE],  \* "orders"
  [id |-> MATCH_GROUP, name |-> <<103,114,111,117,112>>, params |-> 0, req |-> FOR_VEHICLE],  \* "group"
  [id |-> MATCH_PROFIT, name |-> <<112,114,111,102,105,116>>, params |-> 0, req |-> FOR_VEHICLE],  \* "profit"
  [id |-> MATCH_PROFIT_THIS, name |-> <<112,114,111,102,105,116,95,116,104,105,115>>, params |-> 0, req |-> FOR_VEHICLE],  \* "profit_this"
  [id |-> MATCH_PROFIT_LAST, name |-> <<112,114,111,102,105,116,95,108,97,115,116>>, params |-> 0, req |-> FOR_VEHICLE],  \* "profit_last"
  [id |-> MATCH_SERVICE, name |-> <<115,101,114,118,105,99,101>>, params |-> 0, req |-> FOR_VEHICLE],  \* "service"
  [id |-> MATCH_SPEED, name |-> <<115,112,101,101,100>>, params |-> 0, req |-> FOR_VEHICLE],  \* "speed"
  [id |-> MATCH_WAGONS, name |-> <<119,97,103,111,110,115>>, params |-> 0, req |-> FOR_TRAIN],  \* "wagons"
  [id |-> MATCH_TOWN_POPULATION, name |-> <<112,111,112,117,108,97,116,105,111,110>>, params |-> 0, req |-> FOR_TOWN],  \* "population"
  [id |-> MATCH_TOWN_HOUSES, name |-> <<104,111,117,115,101,115>>, params |-> 0, req |-> FOR_TOWN],  \* "houses"
  [id |-> MATCH_TOWN_RATING, name |-> <<114,97,116,105,110,103>>, params |-> 0, req |-> FOR_TOWN],  \* "rating"
  [id |-> MATCH_TOWN_NOISE, name |-> <<99,117,114,114,110,111,105,115,101>>, params |-> 0, req |-> FOR_TOWN],  \* "currnoise"
  [id |-> MATCH_TOWN_NOISE_REMAIN, name |-> <<110,111,105,115,101>>, params |-> 0, req |-> FOR_TOWN],  \* "noise"
  [id |-> MATCH_TOWN_NOISE_MAX, name |-> <<109,97,120,110,111,105,115,101>>, params |-> 0, req |-> FOR_TOWN],  \* "maxnoise"
  [id |-> MATCH_TOWN_FUNDING, name |-> <<102,117,110,100>>, params |-> 0, req |-> FOR_TOWN],  \* "fund"
  [id |-> MATCH_TOWN_ROADWORKS, name |-> <<114,111,97,100,119,111,114,107,115>>, params |-> 0, req |-> FOR_TOWN],  \* "roadworks"
  [id |-> MATCH_TOWN_EXCLUSIVE_COMPANY, name |-> <<101,120,99,108,117,115,105,118,101>>, params |-> 0, req |-> FOR_TOWN],  \* "exclusive"
  [id |-> MATCH_TOWN_EXCLUSIVE_MONTHS, name |-> <<97,110,121,95,101,120,99,108,117,115,105,118,101>>, params |-> 0, req |-> FOR_TOWN],  \* "any_exclusive"
  [id |-> MATCH_TOWN_EXCLUSIVE_MY_MONTHS, name |-> <<109,121,95,101,120,99,108,117,115,105,118,101>>, params |-> 0, req |-> FOR_TOWN],  \* "my_exclusive"
  [id |-> MATCH_TOWN_EXCLUSIVE_OTHERS_MONTHS, name |-> <<111,116,104,101,114,95,101,120,99,108,117,115,105,118,101>>, params |-> 0, req |-> FOR_TOWN],  \* "other_exclusive"
  [id |-> MATCH_TOWN_UNWANTED_MONTHS, name |-> <<117,110,119,97,110,116,101,100>>, params |-> 0, req |-> FOR_TOWN],  \* "unwanted"
  [id |-> MATCH_INDUSTRY_PRODUCTION, name |-> <<112,114,111,100,117,99,116,105,111,110>>, params |-> 0, req |-> FOR_INDUSTRY],  \* "production"
  [id |-> MATCH_INDUSTRY_PRODUCTION_THIS, name |-> <<116,104,105,115,112,114,111,100,117,99,116,105,111,110>>, params |-> 0, req |-> FOR_INDUSTRY],  \* "thisproduction"
  [id |-> MATCH_INDUSTRY_PERCENT, name |-> <<112,101,114,99,101,110,116>>, params |-> 0, req |-> FOR_INDUSTRY],  \* "percent"
  [id |-> MATCH_INDUSTRY_PERCENT_THIS, name |-> <<116,104,105,115,112,101,114,99,101,110,116>>, params |-> 0, req |-> FOR_INDUSTRY]  \* "thispercent"
>>

\* ------------------------------------------------------------------------
\* C string primitives
\* ------------------------------------------------------------------------

\* s[k] of a NUL-terminated string, k counted from 1
Ch(s, k) == IF k <= Len(s) THEN s[k] ELSE 0

tolower(c) == IF c >= 65 /\ c <= 90 THEN c + 32 ELSE c

RECURSIVE strcmp_at(_, _, _)
strcmp_at(s1, s2, k) ==
  LET a == Ch(s1, k)
      b == Ch(s2, k)
  IN  IF a # b THEN a - b
      ELSE IF a = 0 THEN 0
      ELSE strcmp_at(s1, s2, k + 1)

strcmp(s1, s2) == strcmp_at(s1, s2, 1)

RECURSIVE stricmp_at(_, _, _)
stricmp_at(s1, s2, k) ==
  LET a == tolower(Ch(s1, k))
      b == tolower(Ch(s2, k))
  IN  IF a # b THEN a - b
      ELSE IF a = 0 THEN 0
      ELSE stricmp_at(s1, s2, k + 1)

\* #define stricmp strcasecmp
stricmp(s1, s2) == stricmp_at(s1, s2, 1)

\* the loop of str_isprefix: length of the common case-insensitive run
RECURSIVE str_isprefix_len(_, _, _)
str_isprefix_len(s1, s2, len) ==
  IF Ch(s1, len + 1) # 0 /\ Ch(s2, len + 1) # 0
     /\ tolower(Ch(s1, len + 1)) = tolower(Ch(s2, len + 1))
  THEN str_isprefix_len(s1, s2, len + 1)
  ELSE len

\* true iff s1 is a (case insensitive) prefix of s2
str_isprefix(s1, s2) ==
  LET len == str_isprefix_len(s1, s2, 0)
  IN  IF Ch(s2, len + 1) = 0 /\ Ch(s1, len + 1) # 0 THEN FALSE
      ELSE IF len > 0 /\ Ch(s1, len + 1) = 0 THEN TRUE
      ELSE FALSE

\* a & b on the non-negative bit masks of StringInfo<T>.req
RECURSIVE BitAnd(_, _)
BitAnd(a, b) ==
  IF a = 0 \/ b = 0 THEN 0
  ELSE (a % 2) * (b % 2) + 2 * BitAnd(a \div 2, b \div 2)

\* ------------------------------------------------------------------------
\* GetStringInfo: name -> descriptor with alias indirection
\* ------------------------------------------------------------------------

INVALID_COMMAND_VEHICLE == [id |-> VEHICLE_INVALID_COMMAND, name |-> <<>>, params |-> 0, req |-> 0]
INVALID_COMMAND_TOWN == [id |-> TOWN_INVALID_COMMAND, name |-> <<>>, params |-> 0, req |-> 0]
INVALID_COMMAND_INDUSTRY == [id |-> INDUSTRY_INVALID_COMMAND, name |-> <<>>, params |-> 0, req |-> 0]
INVALID_MATCH == [id |-> MATCH_INVALID, name |-> <<>>, params |-> 0, req |-> 0]

\* string_array[k]; a read past the end of the array is marked by id OUT_OF_TABLE
OUT_OF_TABLE == -2
StringInfoAt(string_array, k) ==
  IF k <= Len(string_array) THEN string_array[k]
  ELSE [id |-> OUT_OF_TABLE, name |-> <<>>, params |-> 0, req |-> 0]

\* mutant of SkipAliases: the alias run is not skipped
SkipAliases_NoSkip(string_array, real_i) == real_i

\* while (string_array[real_i].id == LIST_ALIAS) real_i++;
RECURSIVE SkipAliases(_, _)
SkipAliases(string_array, real_i) ==
  IF StringInfoAt(string_array, real_i).id = LIST_ALIAS
  THEN SkipAliases(string_array, real_i + 1)
  ELSE real_i

\* mutant of GetStringInfoIter: an exact match does not return at once, it
\* counts as one more prefix hit
GetStringInfoIter_NoExactReturn(id, string_array, i, st) ==
  LET hit == StringInfoAt(string_array, SkipAliases(string_array, i))
  IN  IF str_isprefix(id, string_array[i].name) /\ hit.id # st.cmd.id
      THEN [cmd |-> hit,
            unique_prefix |-> IF st.cmd.id # 0 THEN FALSE ELSE st.unique_prefix,
            returned |-> FALSE]
      ELSE st

\* mutant of GetStringInfoIter: a second prefix hit does not clear unique_prefix
GetStringInfoIter_NoAmbiguity(id, string_array, i, st) ==
  LET hit == StringInfoAt(string_array, SkipAliases(string_array, i))
  IN  IF stricmp(id, string_array[i].name) = 0
      THEN [cmd |-> hit, unique_prefix |-> st.unique_prefix, returned |-> TRUE]
      ELSE IF str_isprefix(id, string_array[i].name) /\ hit.id # st.cmd.id
      THEN [cmd |-> hit, unique_prefix |-> st.unique_prefix, returned |-> FALSE]
      ELSE st

\* mutant of GetStringInfoIter: a hit on the command already found is not
\* skipped, so an alias and its command disambiguate each other
GetStringInfoIter_NoSameSkip(id, string_array, i, st) ==
  LET hit == StringInfoAt(string_array, SkipAliases(string_array, i))
  IN  IF stricmp(id, string_array[i].name) = 0
      THEN [cmd |-> hit, unique_prefix |-> st.unique_prefix, returned |-> TRUE]
      ELSE IF str_isprefix(id, string_array[i].name)
      THEN [cmd |-> hit,
            unique_prefix |-> IF st.cmd.id # 0 THEN FALSE ELSE st.unique_prefix,
            returned |-> FALSE]
      ELSE st

\* one iteration of the for loop; st = [cmd, unique_prefix, returned]
GetStringInfoIter(id, string_array, i, st) ==
  LET real_i == SkipAliases(string_array, i)
      real == StringInfoAt(string_array, real_i)
  IN  IF stricmp(id, string_array[i].name) = 0
      THEN [cmd |-> real, unique_prefix |-> st.unique_prefix, returned |-> TRUE]
      ELSE IF str_isprefix(id, string_array[i].name) /\ real.id # st.cmd.id
      THEN [cmd |-> real,
            unique_prefix |-> IF st.cmd.id # 0 THEN FALSE ELSE st.unique_prefix,
            returned |-> FALSE]
      ELSE st

RECURSIVE GetStringInfoLoop(_, _, _, _, _)
GetStringInfoLoop(id, invalid_value, string_array, i, st) ==
  IF st.returned THEN st.cmd
  ELSE IF i > Len(string_array)
  THEN (IF st.cmd.id # 0 /\ st.unique_prefix THEN st.cmd ELSE invalid_value)
  ELSE GetStringInfoLoop(id, invalid_value, string_array, i + 1,
                         GetStringInfoIter(id, string_array, i, st))

GetStringInfo(id, invalid_value, string_array) ==
  GetStringInfoLoop(id, invalid_value, string_array, 1,
                    [cmd |-> invalid_value, unique_prefix |-> TRUE, returned |-> FALSE])

GetVehicleCommand(id) == GetStringInfo(id, INVALID_COMMAND_VEHICLE, veh_commands)
GetTownCommand(id) == GetStringInfo(id, INVALID_COMMAND_TOWN, town_commands)
GetIndustryCommand(id) == GetStringInfo(id, INVALID_COMMAND_INDUSTRY, ind_commands)
GetMatchType(id) == GetStringInfo(id, INVALID_MATCH, match_info)

\* ------------------------------------------------------------------------
\* Specification of the resolver: one call of a Get*Command / GetMatchType
\* ------------------------------------------------------------------------

NoStringInfo == [id |-> 0, name |-> <<>>, params |-> 0, req |-> 0]

StringArrayOf(c) ==
  CASE c = "GetVehicleCommand" -> veh_commands
    [] c = "GetTownCommand" -> town_commands
    [] c = "GetIndustryCommand" -> ind_commands
    [] c = "GetMatchType" -> match_info

TableNames(string_array) == {string_array[i].name : i \in 1..Len(string_array)}

AllNames ==
  TableNames(veh_commands) \cup TableNames(town_commands)
    \cup TableNames(ind_commands) \cup TableNames(match_info)

toupper(c) == IF c >= 97 /\ c <= 122 THEN c - 32 ELSE c
UpperCase(s) == [k \in 1..Len(s) |-> toupper(s[k])]
Capitalised(s) == [k \in 1..Len(s) |-> IF k = 1 THEN toupper(s[k]) ELSE s[k]]
Prefixes(s) == {SubSeq(s, 1, k) : k \in 0..Len(s)}

\* what a user may type for a name: any prefix of any table name, in lower,
\* upper or capitalised spelling, and every name with a character too many
Queries ==
  LET P == UNION {Prefixes(n) : n \in AllNames}
  IN  P \cup {UpperCase(p) : p \in P} \cup {Capitalised(p) : p \in P}
        \cup {n \o <<120>> : n \in AllNames}

\* the variables of GetStringInfo while another function is under study
ResolveIdle ==
  /\ arg_id = <<>>
  /\ caller = "none"
  /\ ret_cmd = NoStringInfo

\* the variables of GetGroupByName while another function is under study
GroupIdle ==
  /\ groups = <<>>
  /\ _local_company = 0
  /\ arg_name = <<>>
  /\ stack_buf = <<>>
  /\ ret_g = 0

\* the variables of CheckMatch while another function is under study
MatchIdle ==
  /\ arg_match_id = <<>>
  /\ arg_mask = 0
  /\ arg_argv = <<>>
  /\ ret_key = <<>>
  /\ ret_m = <<>>
  /\ ret_argv = <<>>
  /\ ret_argc = 0

\* the variables of the matchers while another function is under study
EntityIdle ==
  /\ matcher = "none"
  /\ arg_entity = <<>>
  /\ arg_m = <<>>
  /\ with_assert = TRUE
  /\ ret_matches = "none"

\* the variables of the dispatchers while another function is under study
DispatchIdle ==
  /\ selector = "none"
  /\ _game_mode = "GM_NORMAL"
  /\ entities = <<>>
  /\ deleted = {}
  /\ con_argv = <<>>
  /\ con_m = <<>>
  /\ m_deletes = 0
  /\ con_cmd = NoStringInfo
  /\ group_list = [list_type |-> "VL_STANDARD", object_id |-> 0]
  /\ loop_i = 1
  /\ matched = 0
  /\ affected = 0
  /\ invoked = <<>>
  /\ effects_log = <<>>
  /\ evaluated = <<>>
  /\ console = <<>>
  /\ con_ret = "none"

InitResolve ==
  /\ pc = "call"
  /\ arg_id \in Queries
  /\ caller = "none"
  /\ ret_cmd = NoStringInfo
  /\ GroupIdle
  /\ MatchIdle
  /\ EntityIdle
  /\ DispatchIdle

CallGetVehicleCommand ==
  /\ pc = "call"
  /\ pc' = "done"
  /\ caller' = "GetVehicleCommand"
  /\ ret_cmd' = GetVehicleCommand(arg_id)
  /\ UNCHANGED <<arg_id, groupVars, matchVars, entityVars, dispatchVars>>

CallGetTownCommand ==
  /\ pc = "call"
  /\ pc' = "done"
  /\ caller' = "GetTownCommand"
  /\ ret_cmd' = GetTownCommand(arg_id)
  /\ UNCHANGED <<arg_id, groupVars, matchVars, entityVars, dispatchVars>>

CallGetIndustryCommand ==
  /\ pc = "call"
  /\ pc' = "done"
  /\ caller' = "GetIndustryCommand"
  /\ ret_cmd' = GetIndustryCommand(arg_id)
  /\ UNCHANGED <<arg_id, groupVars, matchVars, entityVars, dispatchVars>>

CallGetMatchType ==
  /\ pc = "call"
  /\ pc' = "done"
  /\ caller' = "GetMatchType"
  /\ ret_cmd' = GetMatchType(arg_id)
  /\ UNCHANGED <<arg_id, groupVars, matchVars, entityVars, dispatchVars>>

NextResolve ==
  \/ CallGetVehicleCommand
  \/ CallGetTownCommand
  \/ CallGetIndustryCommand
  \/ CallGetMatchType

SpecResolve == InitResolve /\ [][NextResolve]_vars

\* ------------------------------------------------------------------------
\* Properties of the resolver
\* ------------------------------------------------------------------------

InvalidOf(c) ==
  CASE c = "GetVehicleCommand" -> INVALID_COMMAND_VEHICLE
    [] c = "GetTownCommand" -> INVALID_COMMAND_TOWN
    [] c = "GetIndustryCommand" -> INVALID_COMMAND_INDUSTRY
    [] c = "GetMatchType" -> INVALID_MATCH

\* a and b are the same string up to the case of ASCII letters
EqualsNoCase(a, b) ==
  /\ Len(a) = Len(b)
  /\ \A k \in 1..Len(a) : tolower(a[k]) = tolower(b[k])

\* q is an initial segment of n up to the case of ASCII letters
HasPrefixNoCase(q, n) ==
  /\ Len(q) <= Len(n)
  /\ EqualsNoCase(q, SubSeq(n, 1, Len(q)))

\* the entry an entry denotes: itself, or the first non-alias entry after it
RealOf(T, i) ==
  T[CHOOSE j \in i..Len(T) :
      /\ T[j].id # LIST_ALIAS
      /\ \A l \in i..(j - 1) : T[l].id = LIST_ALIAS]

ExactEntries(q, T) == {i \in 1..Len(T) : EqualsNoCase(q, T[i].name)}
PrefixEntries(q, T) == {i \in 1..Len(T) : HasPrefixNoCase(q, T[i].name)}
PrefixDescriptors(q, T) == {RealOf(T, i) : i \in PrefixEntries(q, T)}

ResolveDone == pc = "done" /\ caller # "none"

\* C2: a query that equals an entry's name case-insensitively resolves to the
\* real descriptor of that entry, whatever other entries it is a prefix of.
C2_ExactMatchResolves ==
  ResolveDone =>
    LET T == StringArrayOf(caller)
    IN  \A i \in ExactEntries(arg_id, T) : ret_cmd = RealOf(T, i)

\* C2 witness: an exact name that is also a proper prefix of another entry
\* ("clone" / "clone_shared") has been resolved to its own descriptor.
C2_Witness ==
  /\ ResolveDone
  /\ LET T == StringArrayOf(caller)
     IN  /\ ExactEntries(arg_id, T) # {}
         /\ \E j \in PrefixEntries(arg_id, T) :
              j \notin ExactEntries(arg_id, T) /\ RealOf(T, j) # ret_cmd
         /\ ret_cmd.id # 0

\* C3: without an exact match, the result is the single distinct real
\* descriptor the prefix hits denote, and the invalid descriptor when they
\* denote two or more descriptors or none.
C3_PrefixUnique ==
  (ResolveDone /\ ExactEntries(arg_id, StringArrayOf(caller)) = {}) =>
    LET D == PrefixDescriptors(arg_id, StringArrayOf(caller))
    IN  ret_cmd = IF Cardinality(D) = 1 THEN CHOOSE d \in D : TRUE
                  ELSE InvalidOf(caller)

\* C3 witness: a non-empty query that is a prefix of entries of two different
\* descriptors came back as NotFound.
C3_Witness ==
  /\ ResolveDone
  /\ arg_id # <<>>
  /\ ExactEntries(arg_id, StringArrayOf(caller)) = {}
  /\ Cardinality(PrefixDescriptors(arg_id, StringArrayOf(caller))) >= 2
  /\ ret_cmd = InvalidOf(caller)

\* C4: the descriptor returned is the invalid one or a real entry of the
\* table, never an alias; an exact hit on an alias yields the fields of the
\* first non-alias entry after it; the scan past aliases stays in the table.
C4_NeverAlias ==
  ResolveDone =>
    LET T == StringArrayOf(caller)
    IN  /\ ret_cmd.id # LIST_ALIAS
        /\ ret_cmd.id # OUT_OF_TABLE
        /\ ret_cmd = InvalidOf(caller)
             \/ \E j \in 1..Len(T) : T[j] = ret_cmd /\ T[j].id # LIST_ALIAS
        /\ \A i \in ExactEntries(arg_id, T) :
             T[i].id = LIST_ALIAS =>
               /\ ret_cmd.id = RealOf(T, i).id
               /\ ret_cmd.params = RealOf(T, i).params
               /\ ret_cmd.req = RealOf(T, i).req
        /\ \A i \in 1..Len(T) : SkipAliases(T, i) <= Len(T)

\* C4 witness: the query named an alias entry and a real descriptor came back.
C4_Witness ==
  /\ ResolveDone
  /\ \E i \in ExactEntries(arg_id, StringArrayOf(caller)) :
       StringArrayOf(caller)[i].id = LIST_ALIAS
  /\ ret_cmd.id > 0

\* C5: prefix hits on several entries that all denote one descriptor are not
\* ambiguous: that descriptor is returned.
C5_SameDescriptorNotAmbiguous ==
  ResolveDone =>
    LET T == StringArrayOf(caller)
        P == PrefixEntries(arg_id, T)
    IN  (/\ ExactEntries(arg_id, T) = {}
         /\ Cardinality(P) >= 2
         /\ \A i, j \in P : RealOf(T, i) = RealOf(T, j))
        => \A i \in P : ret_cmd = RealOf(T, i)

\* C5 witness: "cent"-like query, a prefix of an alias and of its command.
C5_Witness ==
  /\ ResolveDone
  /\ LET T == StringArrayOf(caller)
         P == PrefixEntries(arg_id, T)
     IN  /\ ExactEntries(arg_id, T) = {}
         /\ Cardinality(P) >= 2
         /\ \A i, j \in P : RealOf(T, i) = RealOf(T, j)
         /\ \E i \in P : T[i].id = LIST_ALIAS
         /\ ret_cmd.id > 0

\* ------------------------------------------------------------------------
\* GetGroupByName: group of the local company by (abbreviated) name
\* ------------------------------------------------------------------------

\* a const Group* is the position of the group in the pool; NULL is 0
NULL == 0

\* one iteration of FOR_ALL_GROUPS(g); g is the pool position,
\* st = [buf, nocase_g, prefix_g, unique_nocase, unique_prefix, returned, ret].
\* buf is rewritten only for a group of the local company; the comparisons
\* that follow run for every group, on whatever buf holds.
GetGroupByNameIter(name, pool, local, g, st) ==
  LET buf == IF pool[g].owner = local THEN pool[g].name ELSE st.buf
  IN  IF strcmp(buf, name) = 0
      THEN [st EXCEPT !.buf = buf, !.returned = TRUE, !.ret = g]
      ELSE IF stricmp(buf, name) = 0
      THEN [st EXCEPT !.buf = buf,
                      !.unique_nocase = IF st.nocase_g # NULL THEN FALSE ELSE @,
                      !.nocase_g = g]
      ELSE IF str_isprefix(name, buf)
      THEN [st EXCEPT !.buf = buf,
                      !.unique_prefix = IF st.prefix_g # NULL THEN FALSE ELSE @,
                      !.prefix_g = g]
      ELSE [st EXCEPT !.buf = buf]

RECURSIVE GetGroupByNameLoop(_, _, _, _, _)
GetGroupByNameLoop(name, pool, local, g, st) ==
  IF st.returned THEN st.ret
  ELSE IF g > Len(pool)
  THEN (IF st.nocase_g # NULL /\ st.unique_nocase THEN st.nocase_g
        ELSE IF st.prefix_g # NULL /\ st.unique_prefix THEN st.prefix_g
        ELSE NULL)
  ELSE GetGroupByNameLoop(name, pool, local, g + 1,
                          GetGroupByNameIter(name, pool, local, g, st))

\* uninit is the content of the uninitialised local array buf on entry
GetGroupByName(name, pool, local, uninit) ==
  GetGroupByNameLoop(name, pool, local, 1,
                     [buf |-> uninit, nocase_g |-> NULL, prefix_g |-> NULL,
                      unique_nocase |-> TRUE, unique_prefix |-> TRUE,
                      returned |-> FALSE, ret |-> NULL])

\* ------------------------------------------------------------------------
\* Specification of GetGroupByName: one call on a pool of groups
\* ------------------------------------------------------------------------

MaxGroups == 3
MaxCompany == 1

GroupNameSet ==
  { <<120,121,122>>,       \* "xyz"
    <<88,121,122>>,        \* "Xyz"
    <<120,121,122,119>>,   \* "xyzw"
    <<97,98>> }            \* "ab"

GroupQueries ==
  GroupNameSet \cup
  { <<88,89,90>>,          \* "XYZ"
    <<120,121>>,           \* "xy"
    <<>> }                 \* ""

\* what the stack may hold where buf is placed
StackContents == GroupQueries

GroupRecords == [owner : 0..MaxCompany, name : GroupNameSet]

InitGroup ==
  /\ pc = "call"
  /\ \E n \in 0..MaxGroups : groups \in [1..n -> GroupRecords]
  /\ _local_company = 0
  /\ arg_name \in GroupQueries
  /\ stack_buf \in StackContents
  /\ ret_g = NULL
  /\ ResolveIdle
  /\ MatchIdle
  /\ EntityIdle
  /\ DispatchIdle

CallGetGroupByName ==
  /\ pc = "call"
  /\ pc' = "done"
  /\ ret_g' = GetGroupByName(arg_name, groups, _local_company, stack_buf)
  /\ UNCHANGED <<groups, _local_company, arg_name, stack_buf, resolveVars, matchVars,
               entityVars, dispatchVars>>

NextGroup == CallGetGroupByName

SpecGroup == InitGroup /\ [][NextGroup]_vars

\* The calls in which buf is written before it is first read: the pool is
\* empty or its first group belongs to the local company.
InitGroupLocalFirst ==
  /\ InitGroup
  /\ stack_buf = <<>>
  /\ groups # <<>> => groups[1].owner = _local_company

SpecGroupLocalFirst == InitGroupLocalFirst /\ [][NextGroup]_vars

\* ------------------------------------------------------------------------
\* Properties of GetGroupByName
\* ------------------------------------------------------------------------

LocalGroups == {i \in 1..Len(groups) : groups[i].owner = _local_company}
ExactLocal == {i \in LocalGroups : groups[i].name = arg_name}
NoCaseLocal == {i \in LocalGroups : EqualsNoCase(groups[i].name, arg_name)}
\* groups whose name properly extends the query, up to case
PrefixLocal ==
  {i \in LocalGroups :
     /\ arg_name # <<>>
     /\ HasPrefixNoCase(arg_name, groups[i].name)
     /\ ~EqualsNoCase(groups[i].name, arg_name)}

\* C6: when a group of the local company has exactly the name looked for,
\* such a group is returned, whatever else is in the pool.
C6_CaseSensitiveWins ==
  (pc = "done" /\ ExactLocal # {}) => ret_g \in ExactLocal

\* C7: without a case-sensitive match, the unique case-insensitive match is
\* returned, else the unique case-insensitive prefix match, else NULL.
C7_TieredLookup ==
  (pc = "done" /\ ExactLocal = {}) =>
    ret_g = IF Cardinality(NoCaseLocal) = 1 THEN CHOOSE i \in NoCaseLocal : TRUE
            ELSE IF Cardinality(PrefixLocal) = 1 THEN CHOOSE i \in PrefixLocal : TRUE
            ELSE NULL

\* the pool without the groups of other companies, and the positions its
\* groups have in the full pool
LocalPool == SelectSeq(groups, LAMBDA r : r.owner = _local_company)
RECURSIVE NthLocal(_, _)
NthLocal(k, from) ==
  IF groups[from].owner = _local_company
  THEN (IF k = 1 THEN from ELSE NthLocal(k - 1, from + 1))
  ELSE NthLocal(k, from + 1)

\* C8: the result is a group of the local company or NULL, and it is the
\* result the same call gives on the pool without the other companies' groups.
C8_OnlyLocalGroups ==
  pc = "done" =>
    /\ ret_g # NULL => groups[ret_g].owner = _local_company
    /\ LET r == GetGroupByName(arg_name, LocalPool, _local_company, stack_buf)
       IN  ret_g = IF r = NULL THEN NULL ELSE NthLocal(r, 1)

\* ------------------------------------------------------------------------
\* CheckMatch: one filter token, and the filter tokens of a command line
\* ------------------------------------------------------------------------

\* a MatchInfo chain is the sequence of its nodes, head first (m->next is the
\* tail); the NULL pointer is the empty chain
NullMatchInfo == <<>>

RECURSIVE strcspn_from(_, _, _)
strcspn_from(s, reject, n) ==
  IF Ch(s, n + 1) = 0 \/ Ch(s, n + 1) \in reject THEN n
  ELSE strcspn_from(s, reject, n + 1)

\* length of the initial segment of s without a character of reject
strcspn(s, reject) == strcspn_from(s, reject, 0)

\* the characters of "<>="
OperatorChars == {60, 62, 61}

\* mutant of CheckMatchSubtype: the "<>" branch is missing
CheckMatchSubtype_NoNotEqual(match_id, keylen) ==
  LET c0 == Ch(match_id, keylen + 1)
      c1 == Ch(match_id, keylen + 2)
  IN  IF c0 = 61 THEN MATCH_EQUAL
      ELSE IF c0 = 60
      THEN (IF c1 = 61 THEN MATCH_LESS_OR_EQUAL ELSE MATCH_LESS)
      ELSE IF c0 = 62
      THEN (IF c1 = 61 THEN MATCH_GREATER_OR_EQUAL ELSE MATCH_GREATER)
      ELSE MATCH_NONE

\* match_subtype after the test of match_id[keylen] and match_id[keylen+1]
CheckMatchSubtype(match_id, keylen) ==
  LET c0 == Ch(match_id, keylen + 1)
      c1 == Ch(match_id, keylen + 2)
  IN  IF c0 = 61 THEN MATCH_EQUAL
      ELSE IF c0 = 60
      THEN (IF c1 = 61 THEN MATCH_LESS_OR_EQUAL
            ELSE IF c1 = 62 THEN MATCH_NOT_EQUAL
            ELSE MATCH_LESS)
      ELSE IF c0 = 62
      THEN (IF c1 = 61 THEN MATCH_GREATER_OR_EQUAL ELSE MATCH_GREATER)
      ELSE MATCH_NONE

\* the string id points to after the same test
CheckMatchId(match_id, keylen) ==
  LET c0 == Ch(match_id, keylen + 1)
      c1 == Ch(match_id, keylen + 2)
      two == (c0 = 60 /\ c1 \in {61, 62}) \/ (c0 = 62 /\ c1 = 61)
  IN  IF c0 \in OperatorChars
      THEN SubSeq(match_id, keylen + (IF two THEN 3 ELSE 2), Len(match_id))
      ELSE match_id

\* strncpy(match_key, match_id, keylen); match_key[keylen] = 0;
CheckMatchKey(match_id) == SubSeq(match_id, 1, strcspn(match_id, OperatorChars))

\* first entry of match_nn_info for this mask whose name is match_id, or 0
RECURSIVE SpecialMatch(_, _, _)
SpecialMatch(match_id, mask, i) ==
  IF i > Len(match_nn_info) THEN 0
  ELSE IF BitAnd(match_nn_info[i].req, mask) # 0
          /\ stricmp(match_id, match_nn_info[i].name) = 0
  THEN i
  ELSE SpecialMatch(match_id, mask, i + 1)

\* MatchInfo* CheckMatch(const char *match_id, int mask)
CheckMatch(match_id, mask) ==
  LET keylen == strcspn(match_id, OperatorChars)
      match_subtype == CheckMatchSubtype(match_id, keylen)
      id == CheckMatchId(match_id, keylen)
      match == IF keylen # 0 THEN GetMatchType(CheckMatchKey(match_id))
               ELSE INVALID_MATCH
      special == SpecialMatch(match_id, mask, 1)
      match_type == IF special # 0 THEN match_nn_info[special].id
                    ELSE IF match.id # 0 THEN match.id
                    ELSE MATCH_GENERIC
  IN  IF keylen # 0 /\ match.id # 0 /\ BitAnd(match.req, mask) = 0
      THEN NullMatchInfo
      ELSE <<[type |-> match_type, subtype |-> match_subtype, id |-> id]>>

\* mutant of IsAndKeyword: the keyword is compared case-sensitively
IsAndKeyword_CaseSensitive(arg) ==
  strcmp(arg, <<97,110,100>>) = 0 \/ strcmp(arg, <<38>>) = 0

\* stricmp(argv[0], "and") == 0 || stricmp(argv[0], "&") == 0
IsAndKeyword(arg) ==
  stricmp(arg, <<97,110,100>>) = 0 \/ stricmp(arg, <<38>>) = 0

\* mutant of CheckMatchLoop: a token that fails after others were built
\* ends the loop with what was built
RECURSIVE CheckMatchLoop_KeepsBuilt(_, _, _, _)
CheckMatchLoop_KeepsBuilt(argc, argv, mask, m) ==
  IF argc = 0 THEN [m |-> m, argc |-> argc, argv |-> argv]
  ELSE LET tm == CheckMatch(argv[1], mask)
       IN  IF tm = NullMatchInfo
           THEN [m |-> m, argc |-> argc, argv |-> argv]
           ELSE IF argc - 1 = 0
           THEN [m |-> tm \o m, argc |-> 0, argv |-> Tail(argv)]
           ELSE IF ~IsAndKeyword(argv[2])
           THEN [m |-> tm \o m, argc |-> argc - 1, argv |-> Tail(argv)]
           ELSE CheckMatchLoop_KeepsBuilt(argc - 2, Tail(Tail(argv)), mask, tm \o m)

\* the while (argc) loop; the result is [m, argc, argv] as left on return
RECURSIVE CheckMatchLoop(_, _, _, _)
CheckMatchLoop(argc, argv, mask, m) ==
  IF argc = 0 THEN [m |-> m, argc |-> argc, argv |-> argv]
  ELSE LET tm == CheckMatch(argv[1], mask)
       IN  IF tm = NullMatchInfo
           THEN [m |-> NullMatchInfo, argc |-> argc, argv |-> argv]
           ELSE IF argc - 1 = 0
           THEN [m |-> tm \o m, argc |-> 0, argv |-> Tail(argv)]
           ELSE IF ~IsAndKeyword(argv[2])
           THEN [m |-> tm \o m, argc |-> argc - 1, argv |-> Tail(argv)]
           ELSE CheckMatchLoop(argc - 2, Tail(Tail(argv)), mask, tm \o m)

\* MatchInfo* CheckMatch(byte &argc, char** &argv, int mask)
CheckMatchArgs(argc, argv, mask) ==
  IF argc < 3 THEN [m |-> NullMatchInfo, argc |-> argc, argv |-> argv]
  ELSE CheckMatchLoop(argc - 1, Tail(argv), mask, NullMatchInfo)

\* ------------------------------------------------------------------------
\* Specification of the tokenizer: CheckMatch on one token
\* ------------------------------------------------------------------------

\* the masks the dispatchers pass: ConVehicleCommand, ConTown, ConIndustry
SelectorMasks ==
  {FOR_TRAIN, FOR_ROAD, FOR_SHIP, FOR_AIRCRAFT, FOR_VEHICLE, FOR_TOWN, FOR_INDUSTRY}

MaxOpChars == 2

\* all strings over "<>=" of length n
RECURSIVE OpStrings(_)
OpStrings(n) ==
  IF n = 0 THEN {<<>>}
  ELSE {<<c>> \o r : c \in OperatorChars, r \in OpStrings(n - 1)}

\* "speed", "sp", "s", "len", "pop", "crashed", "all", "foo", "", "Age"
TokenKeys ==
  { <<115,112,101,101,100>>,
    <<115,112>>,
    <<115>>,
    <<108,101,110>>,
    <<112,111,112>>,
    <<99,114,97,115,104,101,100>>,
    <<97,108,108>>,
    <<102,111,111>>,
    <<>>,
    <<65,103,101>> }

\* "", "5", "100", "x", "a=b"
TokenValues ==
  { <<>>,
    <<53>>,
    <<49,48,48>>,
    <<120>>,
    <<97,61,98>> }

\* a token is a key, up to MaxOpChars operator characters and a value
Tokens ==
  {k \o o \o v : k \in TokenKeys,
                 o \in UNION {OpStrings(n) : n \in 0..MaxOpChars},
                 v \in TokenValues}

InitToken ==
  /\ pc = "call"
  /\ arg_match_id \in Tokens
  /\ arg_mask \in SelectorMasks
  /\ arg_argv = <<>>
  /\ ret_key = <<>>
  /\ ret_m = NullMatchInfo
  /\ ret_argv = <<>>
  /\ ret_argc = 0
  /\ ResolveIdle
  /\ GroupIdle
  /\ EntityIdle
  /\ DispatchIdle

CallCheckMatch ==
  /\ pc = "call"
  /\ pc' = "done"
  /\ ret_key' = CheckMatchKey(arg_match_id)
  /\ ret_m' = CheckMatch(arg_match_id, arg_mask)
  /\ UNCHANGED <<arg_match_id, arg_mask, arg_argv, ret_argv, ret_argc,
                 resolveVars, groupVars, entityVars, dispatchVars>>

NextToken == CallCheckMatch

SpecToken == InitToken /\ [][NextToken]_vars

\* ------------------------------------------------------------------------
\* Specification of the chain builder: CheckMatch on an argument list
\* ------------------------------------------------------------------------

MaxArgc == 5

\* "all", "and", "AND", "&", "pop<7", "count"
ArgTokens ==
  { <<97,108,108>>,
    <<97,110,100>>,
    <<65,78,68>>,
    <<38>>,
    <<112,111,112,60,55>>,
    <<99,111,117,110,116>> }

\* argv[0] is the selector; CheckMatch skips it unread
SelectorName == <<116,111,119,110>>   \* "town"

InitChain ==
  /\ pc = "call"
  /\ \E n \in 0..(MaxArgc - 1) :
       \E r \in [1..n -> ArgTokens] : arg_argv = <<SelectorName>> \o r
  /\ arg_mask \in {FOR_TRAIN, FOR_TOWN}
  /\ arg_match_id = <<>>
  /\ ret_key = <<>>
  /\ ret_m = NullMatchInfo
  /\ ret_argv = <<>>
  /\ ret_argc = 0
  /\ ResolveIdle
  /\ GroupIdle
  /\ EntityIdle
  /\ DispatchIdle

CallCheckMatchArgs ==
  /\ pc = "call"
  /\ pc' = "done"
  /\ \E r \in {CheckMatchArgs(Len(arg_argv), arg_argv, arg_mask)} :
         /\ ret_m' = r.m
         /\ ret_argv' = r.argv
         /\ ret_argc' = r.argc
  /\ UNCHANGED <<arg_match_id, arg_mask, arg_argv, ret_key, resolveVars, groupVars,
               entityVars, dispatchVars>>

NextChain == CallCheckMatchArgs

SpecChain == InitChain /\ [][NextChain]_vars

\* ------------------------------------------------------------------------
\* Properties of the tokenizer and of the chain builder
\* ------------------------------------------------------------------------

\* position of the first of '<', '>', '=' in tok, 0 when there is none
FirstOperatorPos(tok) ==
  LET P == {k \in 1..Len(tok) : tok[k] \in {60, 61, 62}}
  IN  IF P = {} THEN 0 ELSE CHOOSE k \in P : \A l \in P : k <= l

\* the operator spelled at position p of tok, as [subtype, len]
OperatorAt(tok, p) ==
  LET a == tok[p]
      b == IF p + 1 <= Len(tok) THEN tok[p + 1] ELSE 0
  IN  CASE a = 61 -> [subtype |-> MATCH_EQUAL, len |-> 1]
        [] a = 60 /\ b = 61 -> [subtype |-> MATCH_LESS_OR_EQUAL, len |-> 2]
        [] a = 60 /\ b = 62 -> [subtype |-> MATCH_NOT_EQUAL, len |-> 2]
        [] a = 60 /\ b \notin {61, 62} -> [subtype |-> MATCH_LESS, len |-> 1]
        [] a = 62 /\ b = 61 -> [subtype |-> MATCH_GREATER_OR_EQUAL, len |-> 2]
        [] a = 62 /\ b # 61 -> [subtype |-> MATCH_GREATER, len |-> 1]

\* C9: the key is the text before the first operator character, the operator
\* is the one spelled there (None without one), and the value is the text
\* after the one or two operator characters.
C9_Tokenizer ==
  pc = "done" =>
    LET p == FirstOperatorPos(arg_match_id)
    IN  /\ ret_key = (IF p = 0 THEN arg_match_id ELSE SubSeq(arg_match_id, 1, p - 1))
        /\ ret_m # NullMatchInfo =>
             /\ Len(ret_m) = 1
             /\ p = 0 => ret_m[1].subtype = MATCH_NONE
             /\ p # 0 =>
                  /\ ret_m[1].subtype = OperatorAt(arg_match_id, p).subtype
                  /\ ret_m[1].id = SubSeq(arg_match_id,
                                          p + OperatorAt(arg_match_id, p).len,
                                          Len(arg_match_id))

\* C9 witness: a criterion built from a token with a two-character operator,
\* a key before it and a value after it.
C9_Witness ==
  /\ pc = "done"
  /\ ret_m # NullMatchInfo
  /\ ret_m[1].subtype = MATCH_NOT_EQUAL
  /\ ret_key # <<>>
  /\ ret_m[1].id # <<>>
  /\ ret_m[1].type # MATCH_GENERIC

\* the words "and" and "&" in any case
IsSeparator(tok) ==
  EqualsNoCase(tok, <<97,110,100>>) \/ tok = <<38>>

\* the number of filter tokens of a command line: they stand at 2, 4, ...,
\* each but the last followed by a separator and one more token
FilterCount(args) ==
  CHOOSE k \in 1..Len(args) :
    /\ \A j \in 1..(k - 1) : 2 * j + 2 <= Len(args) /\ IsSeparator(args[2 * j + 1])
    /\ ~(2 * k + 2 <= Len(args) /\ IsSeparator(args[2 * k + 1]))

\* the number of arguments the builder takes: selector, filters, separators
\* (a separator that ends the line is taken too)
ConsumedCount(args) ==
  LET k == FilterCount(args)
  IN  IF 2 * k + 1 <= Len(args) /\ IsSeparator(args[2 * k + 1])
      THEN 2 * k + 1 ELSE 2 * k

\* C10: a chain that was built holds one criterion per filter token, none
\* for a separator, and what is left of argv starts at the command name.
C10_ChainBuilder ==
  (pc = "done" /\ ret_m # NullMatchInfo) =>
    LET k == FilterCount(arg_argv)
        n == ConsumedCount(arg_argv)
    IN  /\ Len(ret_m) = k
        /\ \A j \in 1..k : <<ret_m[k + 1 - j]>> = CheckMatch(arg_argv[2 * j], arg_mask)
        /\ ret_argv = SubSeq(arg_argv, n + 1, Len(arg_argv))
        /\ ret_argc = Len(arg_argv) - n

\* C10 witness: two filters joined by a separator, then a command.
C10_Witness ==
  /\ pc = "done"
  /\ Len(ret_m) = 2
  /\ ret_argc >= 1
  /\ ret_argv # <<>>
  /\ ~IsSeparator(ret_argv[1])
  /\ IsSeparator(arg_argv[3])
  /\ ~IsSeparator(arg_argv[2])
  /\ ~IsSeparator(arg_argv[4])

\* ------------------------------------------------------------------------
\* The matchers: VehicleMatches, TownMatches, IndustryMatches
\* ------------------------------------------------------------------------

\* A call of a matcher ends in one of four ways: it returns true or false,
\* it runs into NOT_REACHED(), or an assert fails.
Bool(b) == IF b THEN "true" ELSE "false"

isspace(c) == c \in {32, 9, 10, 11, 12, 13}

\* the value of c as a digit in a base up to 36, and 36 when it is none
DigitValue(c) ==
  IF c \in 48..57 THEN c - 48
  ELSE IF c \in 97..122 THEN c - 87
  ELSE IF c \in 65..90 THEN c - 55
  ELSE 36

RECURSIVE SkipSpace(_, _)
SkipSpace(s, k) == IF isspace(Ch(s, k)) THEN SkipSpace(s, k + 1) ELSE k

RECURSIVE ScanDigits(_, _, _, _)
ScanDigits(s, k, base, acc) ==
  IF DigitValue(Ch(s, k)) < base
  THEN ScanDigits(s, k + 1, base, acc * base + DigitValue(Ch(s, k)))
  ELSE [endptr |-> k, value |-> acc]

\* strtoull(arg, &endptr, 0): white space, a sign, a prefix 0x or 0 choosing
\* the base, digits.  endptr is a position in arg (1 is arg itself).  A
\* negative literal gives the negation modulo 2^64; value is the integer
\* congruent to it of the smallest magnitude (the literals are short).
strtoull(arg) ==
  LET k0 == SkipSpace(arg, 1)
      neg == Ch(arg, k0) = 45
      k1 == IF Ch(arg, k0) \in {43, 45} THEN k0 + 1 ELSE k0
      hex == /\ Ch(arg, k1) = 48
             /\ Ch(arg, k1 + 1) \in {120, 88}
             /\ DigitValue(Ch(arg, k1 + 2)) < 16
      base == IF hex THEN 16 ELSE IF Ch(arg, k1) = 48 THEN 8 ELSE 10
      k2 == IF hex THEN k1 + 2 ELSE k1
      r == ScanDigits(arg, k2, base, 0)
  IN  IF r.endptr = k2 THEN [endptr |-> 1, value |-> 0]
      ELSE [endptr |-> r.endptr, value |-> IF neg THEN 0 - r.value ELSE r.value]

\* atoi(nptr): white space, a sign, decimal digits; 0 when there are none
atoi(nptr) ==
  LET k0 == SkipSpace(nptr, 1)
      neg == Ch(nptr, k0) = 45
      k1 == IF Ch(nptr, k0) \in {43, 45} THEN k0 + 1 ELSE k0
      r == ScanDigits(nptr, k1, 10, 0)
  IN  IF neg THEN 0 - r.value ELSE r.value

\* Numbers that are compared are kept as <<high, low>> and ordered by high,
\* then low.  The conversion of x to uint32 is x modulo 2^32, which for a
\* negative x is 2^31 + (2^31 + x): high word 1.
uint32(x) == IF x < 0 THEN <<1, (x + 2147483647) + 1>> ELSE <<0, x>>

\* an int or a Money keeps its sign
Signed(x) == <<0, x>>

Less(a, b) == a[1] < b[1] \/ (a[1] = b[1] /\ a[2] < b[2])

\* bool GetArgumentMoney(Money *value, const char *arg)
GetArgumentMoney(arg) ==
  LET r == strtoull(arg)
  IN  [ok |-> r.endptr # 1, value |-> Signed(r.value)]

\* bool GetArgumentInteger(uint32 *value, const char *arg): the literal
\* parsed as an integer, like GetArgumentMoney, into a uint32
GetArgumentInteger(arg) ==
  LET r == strtoull(arg)
  IN  [ok |-> r.endptr # 1, value |-> uint32(r.value)]

\* template<class X> bool NumericMatch(const X value, MatchSubtype subtype,
\*                                     const X target_value)
NumericMatch(value, subtype, target_value) ==
  CASE subtype = MATCH_EQUAL -> Bool(value = target_value)
    [] subtype = MATCH_NOT_EQUAL -> Bool(value # target_value)
    [] subtype = MATCH_LESS -> Bool(Less(value, target_value))
    [] subtype = MATCH_LESS_OR_EQUAL -> Bool(~Less(target_value, value))
    [] subtype = MATCH_GREATER_OR_EQUAL -> Bool(~Less(value, target_value))
    [] subtype = MATCH_GREATER -> Bool(Less(target_value, value))
    [] OTHER -> "NOT_REACHED"

\* bool NumericValueSubMatch(uint32 value, MatchSubtype subtype,
\*                           const char *target_value_str)
\* value is the C expression at the call, converted here to uint32
NumericValueSubMatch(value, subtype, target_value_str) ==
  LET target == GetArgumentInteger(target_value_str)
  IN  IF ~target.ok THEN "false"
      ELSE NumericMatch(uint32(value), subtype, target.value)

\* bool MoneyValueSubMatch(Money value, MatchSubtype subtype,
\*                         const char *target_value_str)
MoneyValueSubMatch(value, subtype, target_value_str) ==
  LET target == GetArgumentMoney(target_value_str)
  IN  IF ~target.ok THEN "false"
      ELSE NumericMatch(Signed(value), subtype, target.value)

\* bool StringValueSubMatch(const char *value, MatchSubtype subtype,
\*                          const char *target_value)
StringValueSubMatch(value, subtype, target_value) ==
  LET res == stricmp(value, target_value)
  IN  NumericMatch(Signed(res), subtype, Signed(0))

\* int CountWagons(const Vehicle *v): the parts of the chain v heads
CountWagons(v) == v.parts

\* Group::IsValidID(index): groups is the pool, its positions the indices
Group_IsValidID(index) == index \in 1..Len(groups)

\* Company::IsValidID(index)
Company_IsValidID(index) == index \in 0..MaxCompany

\* the switch (m->type) of VehicleMatches on the node m
VehicleMatchesNode(v, m) ==
  CASE m.type = MATCH_ALL -> "true"
    [] m.type = MATCH_CRASHED -> Bool("VS_CRASHED" \in v.vehstatus)
    [] m.type = MATCH_BROKEN -> Bool(v.breakdown_ctr # 0)
    [] m.type = MATCH_IN_DEPOT -> Bool(v.in_depot)
    [] m.type = MATCH_SERVICE -> NumericValueSubMatch(v.service_interval, m.subtype, m.id)
    [] m.type = MATCH_SPEED -> NumericValueSubMatch(v.cur_speed, m.subtype, m.id)
    [] m.type = MATCH_ORDERS -> NumericValueSubMatch(v.num_orders, m.subtype, m.id)
    [] m.type = MATCH_AGE -> NumericValueSubMatch(v.age \div 365, m.subtype, m.id)
    [] m.type = MATCH_BREAKDOWNS ->
         NumericValueSubMatch(v.breakdowns_since_last_service, m.subtype, m.id)
    [] m.type = MATCH_MAXSPEED ->
         \* both branches read the same member, vcache.cached_max_speed
         NumericValueSubMatch(v.cached_max_speed, m.subtype, m.id)
    [] m.type = MATCH_LENGTH ->
         \* Train::From(v) asserts the type where asserts are compiled in
         IF with_assert /\ v.type # "VEH_TRAIN" THEN "assert"
         ELSE NumericValueSubMatch((v.cached_total_length + 15) \div 16,
                                   m.subtype, m.id)
    [] m.type = MATCH_WAGONS ->
         IF with_assert /\ v.type # "VEH_TRAIN" THEN "assert"
         ELSE NumericValueSubMatch(CountWagons(v), m.subtype, m.id)
    [] m.type = MATCH_GENERIC -> NumericValueSubMatch(v.unitnumber, MATCH_EQUAL, m.id)
    [] m.type = MATCH_PROFIT ->
         MoneyValueSubMatch(v.profit_this_year + v.profit_last_year, m.subtype, m.id)
    [] m.type = MATCH_PROFIT_THIS -> MoneyValueSubMatch(v.profit_this_year, m.subtype, m.id)
    [] m.type = MATCH_PROFIT_LAST -> MoneyValueSubMatch(v.profit_last_year, m.subtype, m.id)
    [] m.type = MATCH_GROUP ->
         IF ~Group_IsValidID(v.group_id) THEN "false"
         ELSE StringValueSubMatch(groups[v.group_id].name, m.subtype, m.id)
    [] OTHER -> "NOT_REACHED"

\* mutant of VehicleMatches: the rest of the chain is not looked at
VehicleMatches_HeadOnly(v, m) == VehicleMatchesNode(v, Head(m))

\* bool VehicleMatches(const Vehicle *v, MatchInfo *m): m is a chain with
\* at least one node, m->next is Tail(m)
RECURSIVE VehicleMatches(_, _)
VehicleMatches(v, m) ==
  LET next == IF Tail(m) # NullMatchInfo THEN VehicleMatches(v, Tail(m)) ELSE "true"
  IN  IF next # "true" THEN next
      ELSE VehicleMatchesNode(v, Head(m))

\* const char *TownName(const Town *t)
TownName(t) == t.name

\* First available town action
TOWN_ACTION_0 == TOWN_ACTION_AD_SMALL

\* the value of companies that are none: COMPANY_SPECTATOR, INVALID_COMPANY
COMPANY_SPECTATOR == 255
INVALID_COMPANY == 255

\* the switch (m->type) of TownMatches on the node m
TownMatchesNode(t, m) ==
  LET have_company == Company_IsValidID(_local_company)
  IN
  CASE m.type = MATCH_TOWN_POPULATION ->
         NumericValueSubMatch(t.population, m.subtype, m.id)
    [] m.type = MATCH_TOWN_HOUSES -> NumericValueSubMatch(t.num_houses, m.subtype, m.id)
    [] m.type = MATCH_TOWN_RATING ->
         IF ~Company_IsValidID(_local_company) THEN "false"
         ELSE NumericValueSubMatch(t.ratings[_local_company], m.subtype, m.id)
    [] m.type = MATCH_TOWN_NOISE -> NumericValueSubMatch(t.noise_reached, m.subtype, m.id)
    [] m.type = MATCH_TOWN_NOISE_REMAIN ->
         NumericValueSubMatch(t.MaxTownNoise - t.noise_reached, m.subtype, m.id)
    [] m.type = MATCH_TOWN_NOISE_MAX -> NumericValueSubMatch(t.MaxTownNoise, m.subtype, m.id)
    [] m.type = MATCH_TOWN_FUNDING ->
         NumericValueSubMatch(t.fund_buildings_months, m.subtype, m.id)
    [] m.type = MATCH_TOWN_ROADWORKS ->
         NumericValueSubMatch(t.road_build_months, m.subtype, m.id)
    [] m.type = MATCH_TOWN_EXCLUSIVE_COMPANY ->
         IF t.exclusive_counter = 0 THEN "false"
         ELSE NumericValueSubMatch(t.exclusivity, m.subtype, m.id)
    [] m.type = MATCH_TOWN_EXCLUSIVE_MONTHS ->
         NumericValueSubMatch(t.exclusive_counter, m.subtype, m.id)
    [] m.type = MATCH_TOWN_EXCLUSIVE_MY_MONTHS ->
         IF ~have_company THEN "false"
         ELSE IF t.exclusivity # _local_company THEN "false"
         ELSE NumericValueSubMatch(t.exclusive_counter, m.subtype, m.id)
    [] m.type = MATCH_TOWN_EXCLUSIVE_OTHERS_MONTHS ->
         IF ~have_company THEN "false"
         ELSE IF t.exclusivity = _local_company THEN "false"
         ELSE IF t.exclusivity = INVALID_COMPANY THEN "false"
         ELSE NumericValueSubMatch(t.exclusive_counter, m.subtype, m.id)
    [] m.type = MATCH_TOWN_STATUE ->
         IF ~have_company THEN "false" ELSE Bool(_local_company \in t.statues)
    [] m.type = MATCH_TOWN_NO_STATUE ->
         IF ~have_company THEN "false" ELSE Bool(_local_company \notin t.statues)
    [] m.type = MATCH_TOWN_UNWANTED_MONTHS ->
         IF ~have_company THEN "false"
         ELSE NumericValueSubMatch(t.unwanted[_local_company], m.subtype, m.id)
    [] m.type = MATCH_GENERIC ->
         LET n_id == atoi(m.id)
         IN  Bool(stricmp(TownName(t), m.id) = 0 \/ t.index = n_id)
    [] m.type = MATCH_ALL -> "true"
    [] OTHER -> "NOT_REACHED"

\* bool TownMatches(const Town *t, MatchInfo *m)
RECURSIVE TownMatches(_, _)
TownMatches(t, m) ==
  LET next == IF Tail(m) # NullMatchInfo THEN TownMatches(t, Tail(m)) ELSE "true"
  IN  IF next # "true" THEN next
      ELSE TownMatchesNode(t, Head(m))

\* production ? (transport * 100 / production) : 0
PercentTransported(production, transport) ==
  IF production # 0 THEN (transport * 100) \div production ELSE 0

\* the switch (m->type) of IndustryMatches on the node m; i->town is a town
\* for every industry of the pool, so assert(i->town) holds
IndustryMatchesNode(i, m) ==
  CASE m.type = MATCH_GENERIC ->
         LET n_id == atoi(m.id)
         IN  Bool(stricmp(TownName(i.town), m.id) = 0 \/ i.index = n_id)
    [] m.type = MATCH_ALL -> "true"
    [] m.type = MATCH_INDUSTRY_PRODUCTION ->
         LET production == i.last_month_production[1] + i.last_month_production[2]
         IN  NumericValueSubMatch(production, m.subtype, m.id)
    [] m.type = MATCH_INDUSTRY_PERCENT ->
         LET production == i.last_month_production[1] + i.last_month_production[2]
             transport == i.last_month_transported[1] + i.last_month_transported[2]
         IN  NumericValueSubMatch(PercentTransported(production, transport),
                                  m.subtype, m.id)
    [] m.type = MATCH_INDUSTRY_PRODUCTION_THIS ->
         LET production == i.this_month_production[1] + i.this_month_production[2]
         IN  NumericValueSubMatch(production, m.subtype, m.id)
    [] m.type = MATCH_INDUSTRY_PERCENT_THIS ->
         LET production == i.this_month_production[1] + i.this_month_production[2]
             transport == i.this_month_transported[1] + i.this_month_transported[2]
         IN  NumericValueSubMatch(PercentTransported(production, transport),
                                  m.subtype, m.id)
    [] OTHER -> "NOT_REACHED"

\* bool IndustryMatches(const Industry *i, MatchInfo *m)
RECURSIVE IndustryMatches(_, _)
IndustryMatches(i, m) ==
  LET next == IF Tail(m) # NullMatchInfo THEN IndustryMatches(i, Tail(m)) ELSE "true"
  IN  IF next # "true" THEN next
      ELSE IndustryMatchesNode(i, Head(m))

\* ------------------------------------------------------------------------
\* Specification of the matchers: one call of a matcher on an entity and on
\* a chain that CheckMatch built from a command line
\* ------------------------------------------------------------------------

MaxFilters == 2

\* Vehicles that differ in what the filters below look at.  group_id is a
\* position in the pool, or 0 for an index that is no group.  For a vehicle
\* that is no train, cached_total_length is what is read where a train
\* keeps it.
Vehicles ==
  { [ type |-> ty, vehstatus |-> st,
      breakdown_ctr |-> 0, in_depot |-> FALSE, service_interval |-> 150,
      cur_speed |-> sp, num_orders |-> 3, age |-> 800,
      breakdowns_since_last_service |-> 1, cached_max_speed |-> 120,
      cached_total_length |-> 40, parts |-> 3, unitnumber |-> 5,
      profit_this_year |-> (IF sp = 0 THEN 0 - 50 ELSE 70),
      profit_last_year |-> 10,
      group_id |-> g ] :
    ty \in {"VEH_TRAIN", "VEH_ROAD"}, st \in {{}, {"VS_CRASHED"}},
    sp \in {0, 100}, g \in {0, 1} }

\* the group pool the vehicles refer to
VehicleGroups == <<[owner |-> 0, name |-> <<97,98>> (* "ab" *)]>>

Towns ==
  { [ index |-> x[1], name |-> x[2],
      population |-> p, num_houses |-> 40,
      ratings |-> [c \in 0..MaxCompany |-> 200],
      noise_reached |-> 2, MaxTownNoise |-> 3,
      fund_buildings_months |-> 0, road_build_months |-> 1,
      exclusive_counter |-> 3, exclusivity |-> 1,
      statues |-> s,
      unwanted |-> [c \in 0..MaxCompany |-> 0] ] :
    x \in {<<0, <<65,98>> (* "Ab" *)>>, <<5, <<67,100>> (* "Cd" *)>>},
    p \in {999, 1000}, s \in {{}, {0}} }

Industries ==
  { [ index |-> n, town |-> t,
      last_month_production |-> <<p, p>>,
      last_month_transported |-> <<p \div 2, 0>>,
      this_month_production |-> <<1, 0>>,
      this_month_transported |-> <<1, 0>> ] :
    n \in {3, 4}, p \in {0, 8},
    t \in {tt \in Towns : tt.index = 5 /\ tt.population = 999 /\ tt.statues = {}} }

\* filter tokens of the vehicle selectors
VehicleFilters ==
  { <<97,108,108>>,                                             \* "all"
    <<99,114,97,115,104,101,100>>,                              \* "crashed"
    <<115,112,101,101,100,62,53,48>>,                           \* "speed>50"
    <<112,114,111,102,105,116,95,116,104,105,115,60,48>>,       \* "profit_this<0"
    <<108,101,110,61,51>>,                                      \* "len=3"
    <<103,114,111,117,112>> }                                   \* "group"

\* filter tokens of the town selector
TownFilters ==
  { <<97,108,108>>,                                             \* "all"
    <<112,111,112,62,61,49,48,48,48>>,                          \* "pop>=1000"
    <<114,97,116,105,110,103,62,49,48,48>>,                     \* "rating>100"
    <<115,116,97,116,117,101>>,                                 \* "statue"
    <<97,98>>,                                                  \* "ab"
    <<120,113>> }                                               \* "xq"

\* filter tokens of the industry selector
IndustryFilters ==
  { <<97,108,108>>,                                             \* "all"
    <<112,114,111,100,117,99,116,105,111,110,62,49,48>>,        \* "production>10"
    <<112,101,114,99,101,110,116,60,61,53,48>>,                 \* "percent<=50"
    <<51>> }                                                    \* "3"

Matchers == {"VehicleMatches", "TownMatches", "IndustryMatches"}

EntitiesOf(f) ==
  IF f = "VehicleMatches" THEN Vehicles
  ELSE IF f = "TownMatches" THEN Towns
  ELSE Industries

FiltersOf(f) ==
  IF f = "VehicleMatches" THEN VehicleFilters
  ELSE IF f = "TownMatches" THEN TownFilters
  ELSE IndustryFilters

\* masks that ConVehicleCommand (selector "vehicle"), ConTown and
\* ConIndustry pass to CheckMatch
MasksOf(f) ==
  IF f = "VehicleMatches" THEN {FOR_VEHICLE}
  ELSE IF f = "TownMatches" THEN {FOR_TOWN}
  ELSE {FOR_INDUSTRY}

\* the filters joined by "and"
RECURSIVE JoinAnd(_)
JoinAnd(filters) ==
  IF Len(filters) <= 1 THEN filters
  ELSE <<Head(filters), <<97,110,100>> (* "and" *)>> \o JoinAnd(Tail(filters))

\* the command line: selector, filters joined by "and", command "count"
CommandLine(filters) == <<SelectorName>> \o JoinAnd(filters) \o <<<<99,111,117,110,116>> (* "count" *)>>

InitMatcher ==
  /\ pc = "call"
  /\ matcher \in Matchers
  /\ arg_entity \in EntitiesOf(matcher)
  /\ with_assert \in (IF matcher = "VehicleMatches" THEN BOOLEAN ELSE {TRUE})
  /\ _local_company \in (IF matcher = "TownMatches" THEN {0, COMPANY_SPECTATOR} ELSE {0})
  /\ groups = VehicleGroups
  /\ arg_mask \in MasksOf(matcher)
  /\ \E n \in 1..MaxFilters :
       \E filters \in [1..n -> FiltersOf(matcher)] :
         /\ arg_argv = CommandLine(filters)
         /\ arg_m = CheckMatchArgs(Len(arg_argv), arg_argv, arg_mask).m
  /\ arg_m # NullMatchInfo
  /\ ret_matches = "none"
  /\ arg_name = <<>>
  /\ stack_buf = <<>>
  /\ ret_g = NULL
  /\ arg_match_id = <<>>
  /\ ret_key = <<>>
  /\ ret_m = NullMatchInfo
  /\ ret_argv = <<>>
  /\ ret_argc = 0
  /\ ResolveIdle
  /\ DispatchIdle

CallVehicleMatches ==
  /\ pc = "call"
  /\ matcher = "VehicleMatches"
  /\ pc' = "done"
  /\ ret_matches' = VehicleMatches(arg_entity, arg_m)
  /\ UNCHANGED <<matcher, arg_entity, arg_m, with_assert, resolveVars, groupVars, matchVars,
                 dispatchVars>>

CallTownMatches ==
  /\ pc = "call"
  /\ matcher = "TownMatches"
  /\ pc' = "done"
  /\ ret_matches' = TownMatches(arg_entity, arg_m)
  /\ UNCHANGED <<matcher, arg_entity, arg_m, with_assert, resolveVars, groupVars, matchVars,
                 dispatchVars>>

CallIndustryMatches ==
  /\ pc = "call"
  /\ matcher = "IndustryMatches"
  /\ pc' = "done"
  /\ ret_matches' = IndustryMatches(arg_entity, arg_m)
  /\ UNCHANGED <<matcher, arg_entity, arg_m, with_assert, resolveVars, groupVars, matchVars,
                 dispatchVars>>

NextMatcher ==
  \/ CallVehicleMatches
  \/ CallTownMatches
  \/ CallIndustryMatches

SpecMatcher == InitMatcher /\ [][NextMatcher]_vars

\* ------------------------------------------------------------------------
\* Properties of the matchers
\* ------------------------------------------------------------------------

\* the matcher of the call, on a chain
Matches(e, m) ==
  IF matcher = "VehicleMatches" THEN VehicleMatches(e, m)
  ELSE IF matcher = "TownMatches" THEN TownMatches(e, m)
  ELSE IndustryMatches(e, m)

\* how criterion k of the chain ends when it is the whole chain
Alone(k) == Matches(arg_entity, <<arg_m[k]>>)

\* the chain of the command line with "and all" after its last filter
ChainAndAll ==
  LET n == Len(arg_argv)
      line == SubSeq(arg_argv, 1, n - 1) \o <<<<97,110,100>> (* "and" *), <<97,108,108>> (* "all" *)>>
                \o <<arg_argv[n]>>
  IN  CheckMatchArgs(Len(line), line, arg_mask).m

\* C1: a matcher returns true for a chain exactly when every criterion of
\* the chain, taken alone, is true of the entity; when it returns false some
\* criterion alone is false; and "and all" after the last filter changes
\* neither the length of the chain by other than one nor the outcome.
C1_AndSemantics ==
  pc = "done" =>
    /\ ret_matches = "true" <=> \A k \in 1..Len(arg_m) : Alone(k) = "true"
    /\ ret_matches = "false" => \E k \in 1..Len(arg_m) : Alone(k) = "false"
    /\ Len(ChainAndAll) = Len(arg_m) + 1
    /\ Matches(arg_entity, ChainAndAll) = ret_matches

\* a vehicle that the newest filter alone accepts and an older filter, none
\* of them "all", rejects
C1_Witness ==
  /\ pc = "done"
  /\ matcher = "VehicleMatches"
  /\ Len(arg_m) = 2
  /\ \A k \in 1..2 : arg_m[k].type # MATCH_ALL
  /\ Alone(1) = "true"
  /\ Alone(2) = "false"
  /\ ret_matches = "false"

\* ------------------------------------------------------------------------
\* Specification of the numeric criteria: one call of a matcher on an entity
\* and on the chain CheckMatch builds from one token key, operator, literal
\* ------------------------------------------------------------------------

NumericVehicles ==
  { [ type |-> "VEH_TRAIN", vehstatus |-> {},
      breakdown_ctr |-> 0, in_depot |-> FALSE, service_interval |-> 150,
      cur_speed |-> sp, num_orders |-> 3, age |-> ag,
      breakdowns_since_last_service |-> 1, cached_max_speed |-> 120,
      cached_total_length |-> 40, parts |-> 3, unitnumber |-> 5,
      profit_this_year |-> pr, profit_last_year |-> 10,
      group_id |-> 0 ] :
    sp \in {0, 100}, ag \in {364, 800}, pr \in {0 - 60, 70} }

\* noise_reached may exceed MaxTownNoise(), which follows the population
NumericTowns ==
  { [ index |-> 5, name |-> <<67,100>> (* "Cd" *),
      population |-> p, num_houses |-> 40,
      ratings |-> [c \in 0..MaxCompany |-> r],
      noise_reached |-> nr, MaxTownNoise |-> 3,
      fund_buildings_months |-> 0, road_build_months |-> 1,
      exclusive_counter |-> 3, exclusivity |-> 1,
      statues |-> {},
      unwanted |-> [c \in 0..MaxCompany |-> 0] ] :
    p \in {999, 1000}, r \in {0 - 100, 200}, nr \in {2, 4} }

NumericIndustries ==
  { [ index |-> 3, town |-> t,
      last_month_production |-> <<p, p>>,
      last_month_transported |-> <<p \div 2, 0>>,
      this_month_production |-> <<1, 0>>,
      this_month_transported |-> <<1, 0>> ] :
    p \in {0, 50},
    t \in {tt \in NumericTowns : tt.population = 999 /\ tt.ratings[0] = 200
                                   /\ tt.noise_reached = 2} }

\* keys of numeric and money criteria of vehicles
VehicleNumericKeys ==
  { <<115,112,101,101,100>>,                                    \* "speed"
    <<97,103,101>>,                                             \* "age"
    <<112,114,111,102,105,116,95,116,104,105,115>> }            \* "profit_this"

\* keys of numeric criteria of towns
TownNumericKeys ==
  { <<112,111,112,117,108,97,116,105,111,110>>,                 \* "population"
    <<114,97,116,105,110,103>>,                                 \* "rating"
    <<110,111,105,115,101>> }                                   \* "noise"

\* keys of numeric criteria of industries
IndustryNumericKeys ==
  { <<112,114,111,100,117,99,116,105,111,110>> }                \* "production"

\* the operators of a criterion
ComparisonOperators ==
  { <<61>>,                                                     \* "="
    <<60,62>>,                                                  \* "<>"
    <<60>>,                                                     \* "<"
    <<60,61>>,                                                  \* "<="
    <<62,61>>,                                                  \* ">="
    <<62>> }                                                    \* ">"

\* literals of a criterion
NumericLiterals ==
  { <<48>>,                                                     \* "0"
    <<50>>,                                                     \* "2"
    <<49,48,48>>,                                               \* "100"
    <<49,48,48,48>>,                                            \* "1000"
    <<45,54,48>>,                                               \* "-60"
    <<120>>,                                                    \* "x"
    <<>> }                                                      \* ""

NumericEntitiesOf(f) ==
  IF f = "VehicleMatches" THEN NumericVehicles
  ELSE IF f = "TownMatches" THEN NumericTowns
  ELSE NumericIndustries

NumericKeysOf(f) ==
  IF f = "VehicleMatches" THEN VehicleNumericKeys
  ELSE IF f = "TownMatches" THEN TownNumericKeys
  ELSE IndustryNumericKeys

InitNumeric ==
  /\ pc = "call"
  /\ matcher \in Matchers
  /\ arg_entity \in NumericEntitiesOf(matcher)
  /\ with_assert = TRUE
  /\ _local_company = 0
  /\ groups = <<>>
  /\ arg_mask \in MasksOf(matcher)
  /\ \E key \in NumericKeysOf(matcher) :
       \E op \in ComparisonOperators :
         \E literal \in NumericLiterals :
           /\ arg_argv = CommandLine(<<key \o op \o literal>>)
           /\ arg_m = CheckMatchArgs(Len(arg_argv), arg_argv, arg_mask).m
  /\ arg_m # NullMatchInfo
  /\ ret_matches = "none"
  /\ arg_name = <<>>
  /\ stack_buf = <<>>
  /\ ret_g = NULL
  /\ arg_match_id = <<>>
  /\ ret_key = <<>>
  /\ ret_m = NullMatchInfo
  /\ ret_argv = <<>>
  /\ ret_argc = 0
  /\ ResolveIdle
  /\ DispatchIdle

SpecNumeric == InitNumeric /\ [][NextMatcher]_vars

\* the attribute a criterion of type ty is about, as the number it is
AttributeOf(e, ty) ==
  CASE ty = MATCH_SPEED -> e.cur_speed
    [] ty = MATCH_AGE -> e.age \div 365
    [] ty = MATCH_PROFIT_THIS -> e.profit_this_year
    [] ty = MATCH_TOWN_POPULATION -> e.population
    [] ty = MATCH_TOWN_RATING -> e.ratings[_local_company]
    [] ty = MATCH_TOWN_NOISE_REMAIN -> e.MaxTownNoise - e.noise_reached
    [] ty = MATCH_INDUSTRY_PRODUCTION ->
         e.last_month_production[1] + e.last_month_production[2]

\* a literal that is an integer in decimal notation: digits after an
\* optional minus sign
IsDecimal(s) ==
  LET from == IF Ch(s, 1) = 45 THEN 2 ELSE 1
  IN  /\ Len(s) >= from
      /\ \A k \in from..Len(s) : s[k] \in 48..57

RECURSIVE DecimalDigits(_, _)
DecimalDigits(s, n) ==
  IF n = 0 THEN 0 ELSE 10 * DecimalDigits(s, n - 1) + (s[n] - 48)

DecimalValue(s) ==
  IF Ch(s, 1) = 45 THEN 0 - DecimalDigits(Tail(s), Len(s) - 1)
  ELSE DecimalDigits(s, Len(s))

\* a op n
Compares(a, op, n) ==
  CASE op = MATCH_EQUAL -> a = n
    [] op = MATCH_NOT_EQUAL -> a # n
    [] op = MATCH_LESS -> a < n
    [] op = MATCH_LESS_OR_EQUAL -> a <= n
    [] op = MATCH_GREATER_OR_EQUAL -> a >= n
    [] op = MATCH_GREATER -> a > n

\* C19: for a criterion key, operator, literal the matcher returns true
\* exactly when the literal is an integer n and (attribute operator n)
\* holds, for signed and unsigned attributes alike, and false when the
\* literal is no integer.
C19_NumericCriterion ==
  pc = "done" =>
    LET c == arg_m[1]
    IN  IF IsDecimal(c.id)
        THEN ret_matches = Bool(Compares(AttributeOf(arg_entity, c.type), c.subtype,
                                         DecimalValue(c.id)))
        ELSE ret_matches = "false"

\* ------------------------------------------------------------------------
\* The per-entity actions: DoTownCommand, DoIndustryCommand, DoVehicleCommand
\* ------------------------------------------------------------------------

\* A call of an action returns ret (0 or 1) unless it is aborted: abort is
\* "NOT_REACHED", "assert" (an assert fails where asserts are compiled in)
\* or "UB" (undefined behaviour is reached) instead of "none".  effects are
\* the calls it makes into the game, in order; deleted tells that it
\* destroyed the entity.
Effect(op, target, arg) == [op |-> op, target |-> target, arg |-> arg]

Returns(ret, effects) ==
  [abort |-> "none", ret |-> ret, effects |-> effects, deleted |-> FALSE]

Aborts(how) == [abort |-> how, ret |-> 0, effects |-> <<>>, deleted |-> FALSE]

\* n times the effect e
RECURSIVE Repeat(_, _)
Repeat(e, n) == IF n <= 0 THEN <<>> ELSE <<e>> \o Repeat(e, n - 1)

\* int DoTownCommand(Town *t, TownCommand command, int argc, char **argv)
DoTownCommand(t, command, argc, argv) ==
  CASE command = TOWN_COUNT -> Returns(1, <<>>)
    [] command = TOWN_CENTER -> Returns(1, <<Effect("ScrollMainWindowToTile", t.index, 0)>>)
    [] command = TOWN_PRINT -> Returns(1, <<Effect("IConsolePrintF", t.index, 0)>>)
    [] command = TOWN_INFO -> Returns(1, <<Effect("IConsolePrintF", t.index, 0)>>)
    [] command = TOWN_OPEN -> Returns(1, <<Effect("ShowTownViewWindow", t.index, 0)>>)
    [] command = TOWN_OPEN_AUTH ->
         Returns(1, <<Effect("ShowTownAuthorityWindow", t.index, 0)>>)
    [] command = TOWN_EXPAND ->
         LET rep == IF argc # 0 THEN atoi(argv[1]) ELSE 1
         IN  Returns(1, Repeat(Effect("GrowTown", t.index, 0), rep))
    [] command = TOWN_DELETE ->
         [abort |-> "none", ret |-> 1, effects |-> <<Effect("delete", t.index, 0)>>,
          deleted |-> TRUE]
    [] command \in TOWN_ACTION_AD_SMALL..TOWN_ACTION_BRIBE ->
         Returns(1, <<Effect("CMD_DO_TOWN_ACTION", t.index, command - TOWN_ACTION_0)>>)
    [] OTHER -> Aborts("NOT_REACHED")

\* int DoIndustryCommand(const Industry *i, IndustryCommand command,
\*                       int argc, char **argv)
DoIndustryCommand(i, command, argc, argv) ==
  CASE command = INDUSTRY_COUNT -> Returns(1, <<>>)
    [] command = INDUSTRY_CENTER ->
         Returns(1, <<Effect("ScrollMainWindowToTile", i.index, 0)>>)
    [] command = INDUSTRY_INFO -> Returns(1, <<Effect("IConsolePrintF", i.index, 0)>>)
    [] command = INDUSTRY_OPEN ->
         Returns(1, <<Effect("ShowIndustryViewWindow", i.index, 0)>>)
    [] command = INDUSTRY_DELETE ->
         [abort |-> "none", ret |-> 1,
          effects |-> <<Effect("IConsolePrintF", i.index, 0), Effect("delete", i.index, 0)>>,
          deleted |-> TRUE]
    [] OTHER -> Aborts("NOT_REACHED")

\* bool GetArgumentSignedInteger(int32 *value, const char *arg): the literal
\* parsed as an integer with a sign
GetArgumentSignedInteger(arg) ==
  LET r == strtoull(arg)
  IN  [ok |-> r.endptr # 1, value |-> r.value]

\* GetServiceIntervalClamped(interval, owner): the interval brought into
\* the range of service intervals in days
GetServiceIntervalClamped(interval) ==
  IF interval < 30 THEN 30 ELSE IF interval > 800 THEN 800 ELSE interval

\* uint32 InteractiveRandom(): the number the generator gives at this call
InteractiveRandom == 7

\* a % b in C, for b > 0: the remainder has the sign of a
CRemainder(a, b) == IF a >= 0 THEN a % b ELSE 0 - ((0 - a) % b)

\* the cases VEHICLE_SKIP_ORDER (up to the fall through) and
\* VEHICLE_LEAVE_STATION of DoVehicleCommand
DoVehicleSkipOrder(v, command, argc, argv) ==
  LET parsed == IF argc # 0 THEN GetArgumentSignedInteger(argv[1])
                ELSE [ok |-> FALSE, value |-> 1]
      num_orders ==
        IF command = VEHICLE_SKIP_ORDER /\ argc # 0
        THEN (IF tolower(Ch(argv[1], 1)) = 114 THEN InteractiveRandom
              ELSE IF ~parsed.ok THEN 1
              ELSE parsed.value)
        ELSE 1
      sum == v.current_order.index + num_orders
      new_order == IF CRemainder(sum, v.num_orders) < 0 THEN v.num_orders
                   ELSE CRemainder(sum, v.num_orders)
  IN  IF command = VEHICLE_LEAVE_STATION /\ v.current_order.type # "OT_LOADING"
      THEN Returns(0, <<>>)
      ELSE IF num_orders = 0 THEN Returns(0, <<>>)
      \* the remainder of a division by GetNumOrders() = 0 is undefined
      ELSE IF v.num_orders = 0 THEN Aborts("UB")
      ELSE Returns(1, <<Effect("CMD_SKIP_TO_ORDER", v.index, new_order)>>)

\* the cases VEHICLE_DEPOT, VEHICLE_SERVICE, VEHICLE_UNDEPOT and
\* VEHICLE_UNSERVICE of DoVehicleCommand
DoVehicleSendToDepot(v, command) ==
  LET service == command = VEHICLE_SERVICE \/ command = VEHICLE_UNSERVICE
      send == Returns(1, <<Effect("GetCmdSendToDepot", v.index,
                                  IF service THEN 1 ELSE 0)>>)
  IN  IF "VS_STOPPED" \in v.vehstatus /\ v.in_depot THEN Returns(0, <<>>)
      ELSE IF v.current_order.type = "OT_GOTO_DEPOT"
      THEN (IF v.current_order.halt_in_depot
            THEN (IF command = VEHICLE_DEPOT \/ command = VEHICLE_UNSERVICE
                  THEN Returns(0, <<>>) ELSE send)
            ELSE (IF command = VEHICLE_UNDEPOT \/ command = VEHICLE_SERVICE
                  THEN Returns(0, <<>>) ELSE send))
      ELSE IF command = VEHICLE_UNDEPOT \/ command = VEHICLE_UNSERVICE
      THEN Returns(0, <<>>)
      ELSE send

\* the case TRAIN_SELL_WAGON of DoVehicleCommand.  The statement
\* "num_to_sell;" leaves num_to_sell at 0, so the loop over the wagons
\* fills to_be_sold[0] only and the selling loop submits nothing.
DoTrainSellWagon(v, argc, argv) ==
  LET min == GetArgumentInteger(argv[1])
      max == IF argc >= 2 THEN GetArgumentInteger(argv[2]) ELSE min
  IN  IF v.type # "VEH_TRAIN" THEN Aborts(IF with_assert THEN "assert" ELSE "UB")
      ELSE IF argc = 0 THEN Aborts(IF with_assert THEN "assert" ELSE "UB")
      ELSE IF ~min.ok THEN Returns(0, <<>>)
      ELSE IF argc >= 2 /\ ~max.ok THEN Returns(0, <<>>)
      ELSE IF argc >= 2 /\ Less(max.value, min.value) THEN Returns(0, <<>>)
      ELSE Returns(1, <<>>)

\* int DoVehicleCommand(const Vehicle *v, VehicleCommand command,
\*                      int argc, char **argv)
DoVehicleCommand(v, command, argc, argv) ==
  CASE command = VEHICLE_COUNT -> Returns(1, <<>>)
    [] command = VEHICLE_OPEN -> Returns(1, <<Effect("ShowVehicleViewWindow", v.index, 0)>>)
    [] command = VEHICLE_INTERVAL ->
         IF argc = 0 THEN Aborts(IF with_assert THEN "assert" ELSE "UB")
         ELSE LET parsed == GetArgumentSignedInteger(argv[1])
                  new_interval == GetServiceIntervalClamped(parsed.value)
              IN  IF ~parsed.ok THEN Returns(0, <<>>)
                  ELSE IF new_interval = v.service_interval THEN Returns(0, <<>>)
                  ELSE Returns(1, <<Effect("CMD_CHANGE_SERVICE_INT", v.index,
                                           new_interval)>>)
    [] command = VEHICLE_CENTER -> Returns(1, <<Effect("ScrollMainWindowTo", v.index, 0)>>)
    [] command = TRAIN_WAGON_INFO ->
         IF v.type # "VEH_TRAIN" THEN Aborts(IF with_assert THEN "assert" ELSE "UB")
         ELSE Returns(1, <<Effect("IConsolePrintF", v.index, 0)>>)
    [] command = VEHICLE_INFO -> Returns(1, <<Effect("IConsolePrintF", v.index, 0)>>)
    [] command \in {VEHICLE_SKIP_ORDER, VEHICLE_LEAVE_STATION} ->
         DoVehicleSkipOrder(v, command, argc, argv)
    [] command = TRAIN_IGNORE -> Returns(1, <<Effect("CMD_FORCE_TRAIN_PROCEED", v.index, 0)>>)
    [] command = VEHICLE_TURN ->
         IF v.type = "VEH_TRAIN"
         THEN Returns(1, <<Effect("CMD_REVERSE_TRAIN_DIRECTION", v.index, 0)>>)
         ELSE IF v.type = "VEH_ROAD"
         THEN Returns(1, <<Effect("CMD_TURN_ROADVEH", v.index, 0)>>)
         ELSE Aborts("NOT_REACHED")
    [] command \in {VEHICLE_STOP, VEHICLE_START} ->
         IF command = VEHICLE_STOP /\ "VS_STOPPED" \in v.vehstatus THEN Returns(0, <<>>)
         ELSE IF command = VEHICLE_START /\ "VS_STOPPED" \notin v.vehstatus
         THEN Returns(0, <<>>)
         ELSE Returns(1, <<Effect("CMD_START_STOP_VEHICLE", v.index, 0)>>)
    [] command \in {VEHICLE_DEPOT, VEHICLE_SERVICE, VEHICLE_UNDEPOT, VEHICLE_UNSERVICE} ->
         DoVehicleSendToDepot(v, command)
    [] command \in {VEHICLE_CLONE, VEHICLE_CLONE_SHARED} ->
         LET parsed == IF argc # 0 THEN GetArgumentInteger(argv[1])
                       ELSE [ok |-> FALSE, value |-> uint32(1)]
             \* the literals are short: the count is the low word
             num_clones == IF parsed.ok THEN parsed.value[2] ELSE 1
         IN  Returns(1, Repeat(Effect("CMD_CLONE_VEHICLE", v.index,
                                      IF command = VEHICLE_CLONE_SHARED THEN 1 ELSE 0),
                               num_clones))
    [] command = TRAIN_SELL_WAGON -> DoTrainSellWagon(v, argc, argv)
    [] command = VEHICLE_SELL ->
         Returns(1, <<Effect("GetCmdSellVeh", v.index,
                             IF v.type = "VEH_TRAIN" THEN 1 ELSE 0)>>)
    [] OTHER -> Aborts("NOT_REACHED")

\* ------------------------------------------------------------------------
\* The dispatchers: ConTown, ConIndustry, ConVehicleCommand
\* ------------------------------------------------------------------------

\* What a dispatcher has done when it returns or enters its loop: next is
\* "return" or "loop", ret the value returned ("true", "false") or how the
\* call was aborted, console the messages printed, m the chain CheckMatch
\* returned, deletes how often "delete m" ran, argv what is left of the
\* command line (argc is its length), cmd the descriptor of the command.
Stop(ret, messages, m, deletes) ==
  [next |-> "return", ret |-> ret, console |-> messages, m |-> m,
   deletes |-> deletes, argv |-> <<>>, cmd |-> NoStringInfo,
   list_type |-> "VL_STANDARD", object_id |-> 0]

Proceed(messages, m, argv, cmd, list_type, object_id) ==
  [next |-> "loop", ret |-> "none", console |-> messages, m |-> m,
   deletes |-> 0, argv |-> argv, cmd |-> cmd,
   list_type |-> list_type, object_id |-> object_id]

\* the warning both ConTown and ConIndustry print and then ignore
EditorWarning(cmd) ==
  IF _game_mode # "GM_EDITOR" /\ BitAnd(cmd.req, IN_EDITOR) # 0
  THEN <<"This command can be used only in scenario editor">>
  ELSE <<>>

\* mutant of ConTownPrologue: the test of argc == 0 is missing
ConTownPrologue_NoHelp(argc, argv) ==
  LET WithCommand(built, cmd) ==
        IF built.m = NullMatchInfo
        THEN Stop("true", <<"You have specified invalid match type for this query.">>,
                  NullMatchInfo, 0)
        ELSE IF built.argc = 0 THEN Stop("false", <<>>, built.m, 1)
        ELSE IF cmd.id = 0
        THEN Stop("false", <<"You have specified invalid command.">>, built.m, 0)
        ELSE IF built.argc < 1 + cmd.params
        THEN Stop("true", <<"This command requires additional parameter(s).">>,
                  built.m, 0)
        ELSE IF BitAnd(cmd.req, IS_ALIAS) # 0
        THEN Stop("assert", EditorWarning(cmd), built.m, 0)
        ELSE Proceed(EditorWarning(cmd), built.m, built.argv, cmd, "VL_STANDARD", 0)
      AfterCheckMatch(built) == WithCommand(built, GetTownCommand(built.argv[1]))
  IN  IF argc < 3 THEN Stop("false", <<>>, NullMatchInfo, 0)
      ELSE AfterCheckMatch(CheckMatchArgs(argc, argv, FOR_TOWN))

\* mutant of ConTownPrologue: the return after the editor warning is taken
ConTownPrologue_EditorOnly(argc, argv) ==
  LET WithCommand(built, cmd) ==
        IF built.m = NullMatchInfo
        THEN Stop("true", <<"You have specified invalid match type for this query.">>,
                  NullMatchInfo, 0)
        ELSE IF built.argc = 0 THEN Stop("false", <<>>, built.m, 1)
        ELSE IF cmd.id = 0
        THEN Stop("false", <<"You have specified invalid command.">>, built.m, 0)
        ELSE IF built.argc < 1 + cmd.params
        THEN Stop("true", <<"This command requires additional parameter(s).">>,
                  built.m, 0)
        ELSE IF EditorWarning(cmd) # <<>>
        THEN Stop("true", EditorWarning(cmd), built.m, 0)
        ELSE IF BitAnd(cmd.req, IS_ALIAS) # 0
        THEN Stop("assert", EditorWarning(cmd), built.m, 0)
        ELSE Proceed(EditorWarning(cmd), built.m, built.argv, cmd, "VL_STANDARD", 0)
      AfterCheckMatch(built) == WithCommand(built, GetTownCommand(built.argv[1]))
  IN  IF argc = 0 THEN Stop("true", <<"ConCommandsHelp">>, NullMatchInfo, 0)
      ELSE IF argc < 3 THEN Stop("false", <<>>, NullMatchInfo, 0)
      ELSE AfterCheckMatch(CheckMatchArgs(argc, argv, FOR_TOWN))

\* ConTown up to the loop over the towns
ConTownPrologue(argc, argv) ==
  LET WithCommand(built, cmd) ==
        IF built.m = NullMatchInfo
        THEN Stop("true", <<"You have specified invalid match type for this query.">>,
                  NullMatchInfo, 0)
        ELSE IF built.argc = 0 THEN Stop("false", <<>>, built.m, 1)
        ELSE IF cmd.id = 0
        THEN Stop("false", <<"You have specified invalid command.">>, built.m, 0)
        ELSE IF built.argc < 1 + cmd.params
        THEN Stop("true", <<"This command requires additional parameter(s).">>,
                  built.m, 0)
        ELSE IF BitAnd(cmd.req, IS_ALIAS) # 0
        THEN Stop("assert", EditorWarning(cmd), built.m, 0)
        ELSE Proceed(EditorWarning(cmd), built.m, built.argv, cmd, "VL_STANDARD", 0)
      AfterCheckMatch(built) == WithCommand(built, GetTownCommand(built.argv[1]))
  IN  IF argc = 0 THEN Stop("true", <<"ConCommandsHelp">>, NullMatchInfo, 0)
      ELSE IF argc < 3 THEN Stop("false", <<>>, NullMatchInfo, 0)
      ELSE AfterCheckMatch(CheckMatchArgs(argc, argv, FOR_TOWN))

\* ConIndustry up to the loop over the industries
ConIndustryPrologue(argc, argv) ==
  LET WithCommand(built, cmd) ==
        IF built.m = NullMatchInfo
        THEN Stop("true", <<"You have specified invalid match type for this query.">>,
                  NullMatchInfo, 0)
        ELSE IF built.argc = 0 THEN Stop("false", <<>>, built.m, 1)
        ELSE IF cmd.id = 0
        THEN Stop("false", <<"You have specified invalid command.">>, built.m, 0)
        ELSE IF built.argc < 1 + cmd.params
        THEN Stop("true", <<"This command requires additional parameter(s).">>,
                  built.m, 0)
        ELSE IF BitAnd(cmd.req, IS_ALIAS) # 0
        THEN Stop("assert", EditorWarning(cmd), built.m, 0)
        ELSE Proceed(EditorWarning(cmd), built.m, built.argv, cmd, "VL_STANDARD", 0)
      AfterCheckMatch(built) == WithCommand(built, GetIndustryCommand(built.argv[1]))
  IN  IF argc = 0 THEN Stop("true", <<"ConCommandsHelp">>, NullMatchInfo, 0)
      ELSE IF argc < 3 THEN Stop("false", <<>>, NullMatchInfo, 0)
      ELSE AfterCheckMatch(CheckMatchArgs(argc, argv, FOR_INDUSTRY))

\* the switch (vtype) of ConVehicleCommand, by the console command used
VehicleMask(sel) ==
  CASE sel = "train" -> FOR_TRAIN
    [] sel = "road" -> FOR_ROAD
    [] sel = "ship" -> FOR_SHIP
    [] sel = "aircraft" -> FOR_AIRCRAFT
    [] sel = "vehicle" -> FOR_VEHICLE

\* the loop "while (mx)" of ConVehicleCommand from node k of the chain on:
\* a generic criterion whose literal names a group becomes MATCH_ALL when
\* it is the first such one and MATCH_GROUP otherwise.  Each call of
\* GetGroupByName finds buf as the stack holds it.
RECURSIVE ConvertGenericMatches(_, _, _, _)
ConvertGenericMatches(m, k, list_type, object_id) ==
  IF k > Len(m) THEN [m |-> m, list_type |-> list_type, object_id |-> object_id]
  ELSE LET g == IF m[k].type = MATCH_GENERIC
                THEN GetGroupByName(m[k].id, groups, _local_company, stack_buf)
                ELSE NULL
       IN  IF g = NULL THEN ConvertGenericMatches(m, k + 1, list_type, object_id)
           ELSE IF list_type = "VL_STANDARD"
           THEN ConvertGenericMatches([m EXCEPT ![k].type = MATCH_ALL], k + 1,
                                      "VL_GROUP_LIST", g)
           ELSE ConvertGenericMatches([m EXCEPT ![k].type = MATCH_GROUP], k + 1,
                                      list_type, object_id)

\* mutant of ConVehiclePrologue: the test of argc < 1 + cmd.params is missing
ConVehiclePrologue_NoParamCheck(argc, argv, sel) ==
  LET WithCommand(built, cmd, converted) ==
        IF built.m = NullMatchInfo
        THEN Stop("true", <<"You have specified invalid match type for this query.">>,
                  NullMatchInfo, 0)
        ELSE IF built.argc = 0 THEN Stop("false", <<>>, built.m, 1)
        ELSE IF cmd.id = 0
        THEN Stop("false", <<"You have specified invalid command.">>, built.m, 0)
        ELSE IF BitAnd(cmd.req, VehicleMask(sel)) = 0
        THEN Stop("true", <<"The command you have specified cannot be applied">>,
                  built.m, 0)
        ELSE IF BitAnd(cmd.req, IS_ALIAS) # 0 THEN Stop("assert", <<>>, built.m, 0)
        ELSE Proceed(<<>>, converted.m, built.argv, cmd,
                     converted.list_type, converted.object_id)
      AfterCheckMatch(built) ==
        WithCommand(built, GetVehicleCommand(built.argv[1]),
                    ConvertGenericMatches(built.m, 1, "VL_STANDARD", 0))
  IN  IF argc = 0 THEN Stop("true", <<"ConCommandsHelp">>, NullMatchInfo, 0)
      ELSE IF ~Company_IsValidID(_local_company)
      THEN Stop("true", <<"You have to own a company to make use of this command.">>,
                NullMatchInfo, 0)
      ELSE IF argc < 3 THEN Stop("false", <<>>, NullMatchInfo, 0)
      ELSE AfterCheckMatch(CheckMatchArgs(argc, argv, VehicleMask(sel)))

\* mutant of ConVehiclePrologue: the test of cmd.req & mask is missing
ConVehiclePrologue_NoSafetyCheck(argc, argv, sel) ==
  LET WithCommand(built, cmd, converted) ==
        IF built.m = NullMatchInfo
        THEN Stop("true", <<"You have specified invalid match type for this query.">>,
                  NullMatchInfo, 0)
        ELSE IF built.argc = 0 THEN Stop("false", <<>>, built.m, 1)
        ELSE IF cmd.id = 0
        THEN Stop("false", <<"You have specified invalid command.">>, built.m, 0)
        ELSE IF built.argc < 1 + cmd.params
        THEN Stop("true", <<"This command requires additional parameter(s).">>,
                  built.m, 0)
        ELSE IF BitAnd(cmd.req, IS_ALIAS) # 0 THEN Stop("assert", <<>>, built.m, 0)
        ELSE Proceed(<<>>, converted.m, built.argv, cmd,
                     converted.list_type, converted.object_id)
      AfterCheckMatch(built) ==
        WithCommand(built, GetVehicleCommand(built.argv[1]),
                    ConvertGenericMatches(built.m, 1, "VL_STANDARD", 0))
  IN  IF argc = 0 THEN Stop("true", <<"ConCommandsHelp">>, NullMatchInfo, 0)
      ELSE IF ~Company_IsValidID(_local_company)
      THEN Stop("true", <<"You have to own a company to make use of this command.">>,
                NullMatchInfo, 0)
      ELSE IF argc < 3 THEN Stop("false", <<>>, NullMatchInfo, 0)
      ELSE AfterCheckMatch(CheckMatchArgs(argc, argv, VehicleMask(sel)))

\* ConVehicleCommand up to the loop over sort_list
ConVehiclePrologue(argc, argv, sel) ==
  LET WithCommand(built, cmd, converted) ==
        IF built.m = NullMatchInfo
        THEN Stop("true", <<"You have specified invalid match type for this query.">>,
                  NullMatchInfo, 0)
        ELSE IF built.argc = 0 THEN Stop("false", <<>>, built.m, 1)
        ELSE IF cmd.id = 0
        THEN Stop("false", <<"You have specified invalid command.">>, built.m, 0)
        ELSE IF built.argc < 1 + cmd.params
        THEN Stop("true", <<"This command requires additional parameter(s).">>,
                  built.m, 0)
        ELSE IF BitAnd(cmd.req, VehicleMask(sel)) = 0
        THEN Stop("true", <<"The command you have specified cannot be applied">>,
                  built.m, 0)
        ELSE IF BitAnd(cmd.req, IS_ALIAS) # 0 THEN Stop("assert", <<>>, built.m, 0)
        ELSE Proceed(<<>>, converted.m, built.argv, cmd,
                     converted.list_type, converted.object_id)
      AfterCheckMatch(built) ==
        WithCommand(built, GetVehicleCommand(built.argv[1]),
                    ConvertGenericMatches(built.m, 1, "VL_STANDARD", 0))
  IN  IF argc = 0 THEN Stop("true", <<"ConCommandsHelp">>, NullMatchInfo, 0)
      ELSE IF ~Company_IsValidID(_local_company)
      THEN Stop("true", <<"You have to own a company to make use of this command.">>,
                NullMatchInfo, 0)
      ELSE IF argc < 3 THEN Stop("false", <<>>, NullMatchInfo, 0)
      ELSE AfterCheckMatch(CheckMatchArgs(argc, argv, VehicleMask(sel)))

\* What one round of a dispatch loop does: abort is "none" unless the
\* matcher or the action aborts, call the action invoked (entity, value
\* returned), effects and deleted what the action did.
Round(abort, nmatched, naffected, call, effects, del) ==
  [abort |-> abort, matched |-> nmatched, affected |-> naffected,
   call |-> call, effects |-> effects, deleted |-> del]

\* mutant of ConTownRound: the action is called on towns that do not match
ConTownRound_ActsOnAll(t) ==
  LET Body(r, d, n) ==
        IF r \notin {"true", "false"} THEN Round(r, matched, affected, <<>>, <<>>, FALSE)
        ELSE IF d.abort # "none" THEN Round(d.abort, n, affected, <<>>, <<>>, FALSE)
        ELSE Round("none", n, affected + d.ret,
                   <<[target |-> t.index, ret |-> d.ret]>>, d.effects, d.deleted)
      Matched(r, d) == Body(r, d, IF r = "true" THEN matched + 1 ELSE matched)
  IN  Matched(TownMatches(t, con_m),
              DoTownCommand(t, con_cmd.id, Len(con_argv) - 1, Tail(con_argv)))

\* the body of FOR_ALL_TOWNS(t) in ConTown
ConTownRound(t) ==
  LET Body(r, d) ==
        IF r = "false" THEN Round("none", matched, affected, <<>>, <<>>, FALSE)
        ELSE IF r # "true" THEN Round(r, matched, affected, <<>>, <<>>, FALSE)
        ELSE IF d.abort # "none"
        THEN Round(d.abort, matched + 1, affected, <<>>, <<>>, FALSE)
        ELSE Round("none", matched + 1, affected + d.ret,
                   <<[target |-> t.index, ret |-> d.ret]>>, d.effects, d.deleted)
  IN  Body(TownMatches(t, con_m),
           DoTownCommand(t, con_cmd.id, Len(con_argv) - 1, Tail(con_argv)))

\* the body of FOR_ALL_INDUSTRIES(i) in ConIndustry
ConIndustryRound(i) ==
  LET Body(r, d) ==
        IF r = "false" THEN Round("none", matched, affected, <<>>, <<>>, FALSE)
        ELSE IF r # "true" THEN Round(r, matched, affected, <<>>, <<>>, FALSE)
        ELSE IF d.abort # "none"
        THEN Round(d.abort, matched + 1, affected, <<>>, <<>>, FALSE)
        ELSE Round("none", matched + 1, d.ret,
                   <<[target |-> i.index, ret |-> d.ret]>>, d.effects, d.deleted)
  IN  Body(IndustryMatches(i, con_m),
           DoIndustryCommand(i, con_cmd.id, Len(con_argv) - 1, Tail(con_argv)))

\* mutant of VehicleSkipped: the test of STOPPED is missing
VehicleSkipped_NoStoppedCheck(v, cmd) ==
  \/ BitAnd(cmd.req, NOT_CRASHED) # 0 /\ "VS_CRASHED" \in v.vehstatus
  \/ BitAnd(cmd.req, IN_DEPOT) # 0 /\ ~v.in_depot
  \/ v.type = "VEH_TRAIN" /\ BitAnd(cmd.req, FOR_TRAIN) = 0
  \/ v.type = "VEH_ROAD" /\ BitAnd(cmd.req, FOR_ROAD) = 0
  \/ v.type = "VEH_SHIP" /\ BitAnd(cmd.req, FOR_SHIP) = 0
  \/ v.type = "VEH_AIRCRAFT" /\ BitAnd(cmd.req, FOR_AIRCRAFT) = 0

\* the tests between matched++ and the call of DoVehicleCommand: "continue"
\* is taken (TRUE), the call is made (FALSE)
VehicleSkipped(v, cmd) ==
  \/ BitAnd(cmd.req, NOT_CRASHED) # 0 /\ "VS_CRASHED" \in v.vehstatus
  \/ BitAnd(cmd.req, STOPPED) # 0 /\ "VS_STOPPED" \notin v.vehstatus
  \/ BitAnd(cmd.req, IN_DEPOT) # 0 /\ ~v.in_depot
  \/ v.type = "VEH_TRAIN" /\ BitAnd(cmd.req, FOR_TRAIN) = 0
  \/ v.type = "VEH_ROAD" /\ BitAnd(cmd.req, FOR_ROAD) = 0
  \/ v.type = "VEH_SHIP" /\ BitAnd(cmd.req, FOR_SHIP) = 0
  \/ v.type = "VEH_AIRCRAFT" /\ BitAnd(cmd.req, FOR_AIRCRAFT) = 0

\* the body of the loop over sort_list in ConVehicleCommand
ConVehicleRound(v) ==
  LET Body(r, d) ==
        IF r = "false" THEN Round("none", matched, affected, <<>>, <<>>, FALSE)
        ELSE IF r # "true" THEN Round(r, matched, affected, <<>>, <<>>, FALSE)
        ELSE IF VehicleSkipped(v, con_cmd)
        THEN Round("none", matched + 1, affected, <<>>, <<>>, FALSE)
        ELSE IF v.type \notin {"VEH_TRAIN", "VEH_ROAD", "VEH_SHIP", "VEH_AIRCRAFT"}
        THEN Round("NOT_REACHED", matched + 1, affected, <<>>, <<>>, FALSE)
        ELSE IF d.abort # "none"
        THEN Round(d.abort, matched + 1, affected, <<>>, <<>>, FALSE)
        ELSE Round("none", matched + 1, d.ret,
                   <<[target |-> v.index, ret |-> d.ret]>>, d.effects, d.deleted)
  IN  Body(VehicleMatches(v, con_m),
           DoVehicleCommand(v, con_cmd.id, Len(con_argv) - 1, Tail(con_argv)))

\* ------------------------------------------------------------------------
\* Specification of the dispatchers: one console command train, road, ship,
\* aircraft, vehicle, town or industry, run on a pool of entities
\* ------------------------------------------------------------------------

MaxEntities == 2

Selectors == {"train", "road", "ship", "aircraft", "vehicle", "town", "industry"}

VehicleSelectors == {"train", "road", "ship", "aircraft", "vehicle"}

\* argv[0] of the console command
SelectorWord(sel) ==
  CASE sel = "train" -> <<116,114,97,105,110>> (* "train" *)
    [] sel = "road" -> <<114,111,97,100>> (* "road" *)
    [] sel = "ship" -> <<115,104,105,112>> (* "ship" *)
    [] sel = "aircraft" -> <<97,105,114,99,114,97,102,116>> (* "aircraft" *)
    [] sel = "vehicle" -> <<118,101,104,105,99,108,101>> (* "vehicle" *)
    [] sel = "town" -> <<116,111,119,110>> (* "town" *)
    [] sel = "industry" -> <<105,110,100,117,115,116,114,121>> (* "industry" *)

\* Vehicles as GenerateVehicleSortList may put them into sort_list: a train
\* stopped in a depot, a crashed train, a road vehicle of another company
\* leaving a depot and a ship stopped outside a depot.
DispatchVehicles ==
  { [ index |-> x[1], type |-> x[2], vehstatus |-> x[3], in_depot |-> x[4],
      owner |-> x[5], group_id |-> x[6],
      breakdown_ctr |-> 0, service_interval |-> 150,
      cur_speed |-> 0, num_orders |-> 3, age |-> 800,
      breakdowns_since_last_service |-> 1, cached_max_speed |-> 120,
      cached_total_length |-> 40, parts |-> 3, unitnumber |-> x[1],
      profit_this_year |-> 70, profit_last_year |-> 10,
      current_order |-> [type |-> "OT_NOTHING", halt_in_depot |-> FALSE, index |-> 0] ] :
    x \in { <<1, "VEH_TRAIN", {"VS_STOPPED"}, TRUE, 0, 1>>,
            <<2, "VEH_TRAIN", {"VS_CRASHED"}, FALSE, 0, 0>>,
            <<3, "VEH_ROAD", {}, TRUE, 1, 0>>,
            <<4, "VEH_SHIP", {"VS_STOPPED"}, FALSE, 0, 0>> } }

DispatchTowns ==
  { [ index |-> x[1], name |-> x[2],
      population |-> x[3], num_houses |-> 40,
      ratings |-> [c \in 0..MaxCompany |-> 200],
      noise_reached |-> 2, MaxTownNoise |-> 3,
      fund_buildings_months |-> 0, road_build_months |-> 1,
      exclusive_counter |-> 3, exclusivity |-> 1,
      statues |-> {},
      unwanted |-> [c \in 0..MaxCompany |-> 0] ] :
    x \in { <<0, <<65,98>> (* "Ab" *), 1000>>, <<5, <<67,100>> (* "Cd" *), 999>>, <<6, <<69,102>> (* "Ef" *), 2000>> } }

DispatchIndustries ==
  { [ index |-> x[1], town |-> t,
      last_month_production |-> <<x[2], 0>>,
      last_month_transported |-> <<0, 0>>,
      this_month_production |-> <<1, 0>>,
      this_month_transported |-> <<1, 0>> ] :
    x \in { <<3, 0>>, <<4, 16>>, <<7, 24>> },
    t \in {tt \in DispatchTowns : tt.index = 5} }

\* filter tokens given to the vehicle selectors; "pop" is a town key
VehicleDispatchFilters ==
  { <<97,108,108>>,                                             \* "all"
    <<97,98>>,                                                  \* "ab"
    <<108,101,110,61,51>>,                                      \* "len=3"
    <<112,111,112,62,53>> }                                     \* "pop>5"

\* filter tokens given to town; "speed" is a vehicle key
TownDispatchFilters ==
  { <<97,108,108>>,                                             \* "all"
    <<112,111,112,62,61,49,48,48,48>>,                          \* "pop>=1000"
    <<115,112,101,101,100,62,53>> }                             \* "speed>5"

\* filter tokens given to industry; "pop" is a town key
IndustryDispatchFilters ==
  { <<97,108,108>>,                                             \* "all"
    <<112,114,111,100,117,99,116,105,111,110,62,49,48>>,        \* "production>10"
    <<112,111,112,62,53>> }                                     \* "pop>5"

\* what follows the filters of a vehicle selector
VehicleDispatchCommands ==
  { <<<<99,111,117,110,116>>>>,                                 \* count
    <<<<116,117,114,110>>>>,                                    \* turn
    <<<<115,101,108,108>>>>,                                    \* sell
    <<<<119,115,101,108,108>>>>,                                \* wsell
    <<<<119,115,101,108,108>>, <<49>>>>,                        \* wsell 1
    <<<<105,110,116,101,114,118,97,108>>>>,                     \* interval
    <<<<105,110,116,101,114,118,97,108>>, <<49,48,48>>>>,       \* interval 100
    <<<<105,110,116,101,114,118,97,108>>, <<120>>>>,            \* interval x
    <<<<102,111,111>>>>,                                        \* foo
    <<>> }                                                      \* (no command)

\* what follows the filters of town; "s" is a prefix of show, small_ad, statue
TownDispatchCommands ==
  { <<<<99,111,117,110,116>>>>,                                 \* count
    <<<<100,101,108,101,116,101>>>>,                            \* delete
    <<<<101,120,112,97,110,100>>, <<50>>>>,                     \* expand 2
    <<<<98,114,105,98,101>>>>,                                  \* bribe
    <<<<102,111,111>>>>,                                        \* foo
    <<<<115>>>>,                                                \* s
    <<>> }                                                      \* (no command)

\* what follows the filters of industry; "c" is a prefix of center and count
IndustryDispatchCommands ==
  { <<<<99,111,117,110,116>>>>,                                 \* count
    <<<<100,101,108,101,116,101>>>>,                            \* delete
    <<<<102,111,111>>>>,                                        \* foo
    <<<<99>>>>,                                                 \* c
    <<>> }                                                      \* (no command)

\* what follows a chain of two filters or more: count, foo or nothing
ChainCommands ==
  { <<<<99,111,117,110,116>>>>, <<<<102,111,111>>>>, <<>> }

DispatchEntities(sel) ==
  IF sel = "town" THEN DispatchTowns
  ELSE IF sel = "industry" THEN DispatchIndustries
  ELSE DispatchVehicles

DispatchFilters(sel) ==
  IF sel = "town" THEN TownDispatchFilters
  ELSE IF sel = "industry" THEN IndustryDispatchFilters
  ELSE VehicleDispatchFilters

DispatchCommands(sel) ==
  IF sel = "town" THEN TownDispatchCommands
  ELSE IF sel = "industry" THEN IndustryDispatchCommands
  ELSE VehicleDispatchCommands

\* the entities of T as the pool holds them, by index
RECURSIVE InIndexOrder(_)
InIndexOrder(T) ==
  IF T = {} THEN <<>>
  ELSE LET e == CHOOSE x \in T : \A y \in T : x.index <= y.index
       IN  <<e>> \o InIndexOrder(T \ {e})

InitDispatch ==
  /\ pc = "call"
  /\ selector \in Selectors
  /\ \/ arg_argv = <<>>
     \/ arg_argv = <<SelectorWord(selector)>>
     \/ arg_argv = <<SelectorWord(selector), <<97,108,108>> (* "all" *)>>
     \/ \E n \in 1..MaxFilters :
          \E filters \in [1..n -> DispatchFilters(selector)] :
            \E command \in (IF n = 1 THEN DispatchCommands(selector)
                            ELSE ChainCommands) :
              arg_argv = <<SelectorWord(selector)>> \o JoinAnd(filters) \o command
  /\ _local_company \in (IF Len(arg_argv) <= 3 THEN {0, COMPANY_SPECTATOR} ELSE {0})
  /\ _game_mode \in (IF selector = "town" THEN {"GM_NORMAL", "GM_EDITOR"}
                     ELSE {"GM_NORMAL"})
  /\ \E T \in SUBSET DispatchEntities(selector) :
       /\ Cardinality(T) <= MaxEntities
       /\ entities = InIndexOrder(T)
  /\ groups = VehicleGroups
  /\ stack_buf = <<>>
  /\ with_assert = TRUE
  /\ deleted = {}
  /\ con_argv = <<>>
  /\ con_m = NullMatchInfo
  /\ m_deletes = 0
  /\ con_cmd = NoStringInfo
  /\ group_list = [list_type |-> "VL_STANDARD", object_id |-> 0]
  /\ loop_i = 1
  /\ matched = 0
  /\ affected = 0
  /\ invoked = <<>>
  /\ effects_log = <<>>
  /\ evaluated = <<>>
  /\ console = <<>>
  /\ con_ret = "none"
  /\ arg_name = <<>>
  /\ ret_g = NULL
  /\ arg_match_id = <<>>
  /\ arg_mask = 0
  /\ ret_key = <<>>
  /\ ret_m = NullMatchInfo
  /\ ret_argv = <<>>
  /\ ret_argc = 0
  /\ matcher = "none"
  /\ arg_entity = <<>>
  /\ arg_m = <<>>
  /\ ret_matches = "none"
  /\ ResolveIdle

\* a dispatcher runs from its entry to a return or to its loop
Enter(p) ==
  /\ pc' = IF p.next = "loop" THEN "loop" ELSE "done"
  /\ con_ret' = p.ret
  /\ console' = p.console
  /\ con_m' = p.m
  /\ m_deletes' = p.deletes
  /\ con_argv' = p.argv
  /\ con_cmd' = p.cmd
  /\ group_list' = [list_type |-> p.list_type, object_id |-> p.object_id]
  /\ UNCHANGED <<selector, _game_mode, entities, deleted, loop_i, matched, affected,
                 invoked, effects_log, evaluated>>
  /\ UNCHANGED <<resolveVars, groupVars, matchVars, entityVars>>

\* mutant of NextIndex: the entities behind a destroyed one move up
NextIndex_Compacting(i, destroyed) == IF destroyed THEN i + 2 ELSE i + 1

\* FOR_ALL_TOWNS, FOR_ALL_INDUSTRIES and the loop over sort_list step
\* through the indices; a destroyed entity leaves its slot empty
NextIndex(i, destroyed) == i + 1

\* one round of a dispatch loop, on the entity at loop_i
Iterate(o) ==
  /\ matched' = o.matched
  /\ affected' = o.affected
  /\ invoked' = invoked \o o.call
  /\ effects_log' = effects_log \o o.effects
  /\ evaluated' = Append(evaluated, loop_i)
  /\ deleted' = IF o.deleted THEN deleted \cup {loop_i} ELSE deleted
  /\ pc' = IF o.abort = "none" THEN "loop" ELSE "done"
  /\ con_ret' = IF o.abort = "none" THEN con_ret ELSE o.abort
  /\ loop_i' = IF o.abort = "none" THEN NextIndex(loop_i, o.deleted) ELSE loop_i
  /\ UNCHANGED <<selector, _game_mode, entities, con_argv, con_m, m_deletes, con_cmd,
                 group_list, console>>
  /\ UNCHANGED <<resolveVars, groupVars, matchVars, entityVars>>

\* the report after the loop and the return; deletes tells whether
\* "delete m" is executed
Report(line, deletes) ==
  /\ console' = console \o <<line>>
  /\ m_deletes' = m_deletes + deletes
  /\ con_ret' = "true"
  /\ pc' = "done"
  /\ UNCHANGED <<selector, _game_mode, entities, deleted, con_argv, con_m, con_cmd,
                 group_list, loop_i, matched, affected, invoked, effects_log,
                 evaluated>>
  /\ UNCHANGED <<resolveVars, groupVars, matchVars, entityVars>>

ConTownCall ==
  /\ pc = "call"
  /\ selector = "town"
  /\ \E p \in {ConTownPrologue(Len(arg_argv), arg_argv)} : Enter(p)

ConTownLoop ==
  /\ pc = "loop"
  /\ selector = "town"
  /\ loop_i <= Len(entities)
  /\ \E o \in {ConTownRound(entities[loop_i])} : Iterate(o)

ConTownReport ==
  /\ pc = "loop"
  /\ selector = "town"
  /\ loop_i > Len(entities)
  /\ Report("Number of towns matched: %d, affected: %d", 1)

ConIndustryCall ==
  /\ pc = "call"
  /\ selector = "industry"
  /\ \E p \in {ConIndustryPrologue(Len(arg_argv), arg_argv)} : Enter(p)

ConIndustryLoop ==
  /\ pc = "loop"
  /\ selector = "industry"
  /\ loop_i <= Len(entities)
  /\ \E o \in {ConIndustryRound(entities[loop_i])} : Iterate(o)

ConIndustryReport ==
  /\ pc = "loop"
  /\ selector = "industry"
  /\ loop_i > Len(entities)
  /\ Report("Number of industries matched: %d, affected: %d", 0)

ConVehicleCommandCall ==
  /\ pc = "call"
  /\ selector \in VehicleSelectors
  /\ \E p \in {ConVehiclePrologue(Len(arg_argv), arg_argv, selector)} : Enter(p)

ConVehicleCommandLoop ==
  /\ pc = "loop"
  /\ selector \in VehicleSelectors
  /\ loop_i <= Len(entities)
  /\ \E o \in {ConVehicleRound(entities[loop_i])} : Iterate(o)

ConVehicleCommandReport ==
  /\ pc = "loop"
  /\ selector \in VehicleSelectors
  /\ loop_i > Len(entities)
  /\ Report("Number of %ss matched: %d, affected: %d", 0)

NextDispatch ==
  \/ ConTownCall
  \/ ConTownLoop
  \/ ConTownReport
  \/ ConIndustryCall
  \/ ConIndustryLoop
  \/ ConIndustryReport
  \/ ConVehicleCommandCall
  \/ ConVehicleCommandLoop
  \/ ConVehicleCommandReport

SpecDispatch == InitDispatch /\ [][NextDispatch]_vars

\* ------------------------------------------------------------------------
\* Properties of the dispatchers
\* ------------------------------------------------------------------------

\* the mask the dispatcher of a selector gives to CheckMatch
SelectorMask(sel) ==
  IF sel = "town" THEN FOR_TOWN
  ELSE IF sel = "industry" THEN FOR_INDUSTRY
  ELSE VehicleMask(sel)

\* the dispatcher gets as far as the filters: three arguments or more and,
\* for the vehicle selectors, a local company
ParseReached ==
  /\ Len(arg_argv) >= 3
  /\ selector \in VehicleSelectors => Company_IsValidID(_local_company)

\* the key of tok resolves to a match keyword that is not for this mask
InapplicableKey(tok, mask) ==
  LET key == CheckMatchKey(tok)
      match == GetMatchType(key)
  IN  /\ key # <<>>
      /\ match.id # 0
      /\ BitAnd(match.req, mask) = 0

\* positions, among the filter tokens, of those with an inapplicable key
InapplicableFilters ==
  {j \in 1..FilterCount(arg_argv) :
     InapplicableKey(arg_argv[2 * j], SelectorMask(selector))}

InvalidMatchType == "You have specified invalid match type for this query."

\* nothing was evaluated, invoked or changed by the call
NothingDispatched ==
  /\ loop_i = 1
  /\ matched = 0
  /\ affected = 0
  /\ invoked = <<>>
  /\ effects_log = <<>>
  /\ evaluated = <<>>
  /\ deleted = {}

\* C11: when a filter token at any position has a key that resolves to a
\* match keyword not applicable to the selector, the dispatcher prints the
\* invalid match type error, returns true, evaluates no entity and submits
\* no action.
C11_InapplicableFilterAborts ==
  (pc = "done" /\ ParseReached /\ InapplicableFilters # {}) =>
    /\ con_ret = "true"
    /\ console = <<InvalidMatchType>>
    /\ con_m = NullMatchInfo
    /\ NothingDispatched

\* C11 witness: the second filter is the inapplicable one, a command
\* follows and there are entities to work on.
C11_Witness ==
  /\ pc = "done"
  /\ ParseReached
  /\ InapplicableFilters = {2}
  /\ Len(arg_argv) = 5
  /\ Len(entities) = 2
  /\ console = <<InvalidMatchType>>
  /\ con_ret = "true"

\* C12: a dispatcher called with no argument returns true after the help
\* text, whatever the selector and with or without a local company; it
\* evaluates no entity, submits no action and destroys nothing.
C12_NoArgumentsIsHelp ==
  (pc = "done" /\ arg_argv = <<>>) =>
    /\ con_ret = "true"
    /\ console = <<"ConCommandsHelp">>
    /\ m_deletes = 0
    /\ NothingDispatched

\* C12 witness: a vehicle selector called with no argument and without a
\* local company, with vehicles in the list.
C12_Witness ==
  /\ pc = "done"
  /\ arg_argv = <<>>
  /\ con_ret = "true"
  /\ Len(entities) = 2
  /\ selector = "ship"
  /\ ~Company_IsValidID(_local_company)

\* the command table of a selector, asked for a name
CommandOf(sel, name) ==
  IF sel = "town" THEN GetTownCommand(name)
  ELSE IF sel = "industry" THEN GetIndustryCommand(name)
  ELSE GetVehicleCommand(name)

\* the chain is built and a token is left after the filters
HasCommandToken ==
  /\ ParseReached
  /\ InapplicableFilters = {}
  /\ ConsumedCount(arg_argv) < Len(arg_argv)

\* the token after the filters
CommandToken == arg_argv[ConsumedCount(arg_argv) + 1]

\* C13: when the token after the filters is no command name and no unique
\* prefix of one, the dispatcher prints an error, returns true and
\* dispatches nothing.
C13_UnknownCommandHandled ==
  (pc = "done" /\ HasCommandToken /\ CommandOf(selector, CommandToken).id = 0) =>
    /\ con_ret = "true"
    /\ console = <<"You have specified invalid command.">>
    /\ NothingDispatched

\* the number of arguments after the command name
ParamCount == Len(arg_argv) - ConsumedCount(arg_argv) - 1

MissingParameters == "This command requires additional parameter(s)."

\* C14: a command is passed to an entity only with at least the params of
\* its descriptor after the command name; with fewer the dispatcher prints
\* an error, returns true and processes no entity, so that the assert(argc)
\* of the interval and wsell actions never fails.
C14_RequiredParameters ==
  /\ (pc = "done" /\ HasCommandToken) =>
       LET cmd == CommandOf(selector, CommandToken)
       IN  (cmd.id # 0 /\ ParamCount < cmd.params) =>
             /\ con_ret = "true"
             /\ console = <<MissingParameters>>
             /\ NothingDispatched
  /\ (pc \in {"loop", "done"} /\ loop_i > 1) =>
       Len(con_argv) - 1 >= con_cmd.params
  /\ con_ret \in {"assert", "UB"} =>
       \* the run was ended by the matcher, not by an action
       /\ selector \in VehicleSelectors
       /\ VehicleMatches(entities[loop_i], con_m) = con_ret

\* C14 witness: wsell without a parameter on a train that is stopped in a
\* depot.
C14_Witness ==
  /\ pc = "done"
  /\ selector = "train"
  /\ HasCommandToken
  /\ CommandOf(selector, CommandToken).id = TRAIN_SELL_WAGON
  /\ ParamCount = 0
  /\ \E k \in 1..Len(entities) :
       /\ entities[k].type = "VEH_TRAIN"
       /\ entities[k].in_depot
       /\ "VS_STOPPED" \in entities[k].vehstatus
       /\ VehicleMatches(entities[k], con_m) = "true"
  /\ console = <<MissingParameters>>
  /\ con_ret = "true"

\* a vehicle selector was given a command of the table with its parameters
VehicleCommandGiven ==
  /\ selector \in VehicleSelectors
  /\ HasCommandToken
  /\ LET cmd == GetVehicleCommand(CommandToken)
     IN  cmd.id # 0 /\ ParamCount >= cmd.params

CannotBeApplied == "The command you have specified cannot be applied"

\* C15: a vehicle command whose applicability has no bit of the selector's
\* mask is refused: an error, true, no vehicle evaluated and no action
\* submitted; with a common bit the command goes on to the vehicles.
C15_CommandApplicability ==
  (pc = "done" /\ VehicleCommandGiven) =>
    LET cmd == GetVehicleCommand(CommandToken)
    IN  IF BitAnd(cmd.req, VehicleMask(selector)) = 0
        THEN /\ con_ret = "true"
             /\ console = <<CannotBeApplied>>
             /\ NothingDispatched
        ELSE /\ con_cmd = cmd
             /\ CannotBeApplied \notin {console[k] : k \in 1..Len(console)}

\* C15 witness: "ship all turn" with a ship in the list.
C15_Witness ==
  /\ pc = "done"
  /\ VehicleCommandGiven
  /\ selector = "ship"
  /\ GetVehicleCommand(CommandToken).id = VEHICLE_TURN
  /\ \E k \in 1..Len(entities) :
       /\ entities[k].type = "VEH_SHIP"
       /\ VehicleMatches(entities[k], con_m) = "true"
  /\ console = <<CannotBeApplied>>
  /\ con_ret = "true"

\* C16: in the three dispatch loops affected never exceeds matched, after
\* every iteration and when the report is printed.
C16_AffectedAtMostMatched == affected <= matched

\* C16 witness: a finished loop in which two entities matched and the
\* action was accepted for one of them only.
C16_Witness ==
  /\ pc = "done"
  /\ con_ret = "true"
  /\ loop_i = 3
  /\ matched = 2
  /\ affected = 1
  /\ Len(console) >= 1

\* the number of invocations of the action that returned 1
Accepted == Cardinality({k \in 1..Len(invoked) : invoked[k].ret = 1})

\* the loop has ended and the report line is printed
Reported ==
  /\ pc = "done"
  /\ con_ret = "true"
  /\ con_cmd.id # 0
  /\ loop_i > Len(entities)

\* C17: the affected count of the report is the number of matched entities
\* for which the action returned 1.
C17_AffectedCountsAccepted == Reported => affected = Accepted

\* the applicability bit of the subtype of vehicle v
SubtypeBit(v) ==
  CASE v.type = "VEH_TRAIN" -> FOR_TRAIN
    [] v.type = "VEH_ROAD" -> FOR_ROAD
    [] v.type = "VEH_SHIP" -> FOR_SHIP
    [] v.type = "VEH_AIRCRAFT" -> FOR_AIRCRAFT

\* v satisfies every precondition bit of the descriptor cmd
SatisfiesPreconditions(v, cmd) ==
  /\ BitAnd(cmd.req, NOT_CRASHED) # 0 => "VS_CRASHED" \notin v.vehstatus
  /\ BitAnd(cmd.req, STOPPED) # 0 => "VS_STOPPED" \in v.vehstatus
  /\ BitAnd(cmd.req, IN_DEPOT) # 0 => v.in_depot
  /\ BitAnd(cmd.req, SubtypeBit(v)) # 0

\* positions of the vehicles looked at so far that match the chain
MatchedVehicles ==
  {j \in 1..(loop_i - 1) : VehicleMatches(entities[j], con_m) = "true"}

\* the vehicles the action was invoked on
InvokedVehicles == {invoked[k].target : k \in 1..Len(invoked)}

\* C18: the action of a vehicle command is invoked on exactly the matching
\* vehicles that satisfy every precondition bit of the descriptor (not
\* crashed, stopped, in a depot, subtype); a matching vehicle that fails one
\* is counted in matched and gets no action, and no action is reached with
\* a vehicle it aborts on.
C18_PreconditionsGuardAction ==
  (selector \in VehicleSelectors /\ pc \in {"loop", "done"} /\ con_cmd.id # 0) =>
    IF con_ret \in {"none", "true"}
    THEN /\ matched = Cardinality(MatchedVehicles)
         /\ InvokedVehicles =
              {entities[j].index : j \in
                 {i \in MatchedVehicles : SatisfiesPreconditions(entities[i], con_cmd)}}
         /\ Len(invoked) = Cardinality(InvokedVehicles)
    ELSE VehicleMatches(entities[loop_i], con_m) = con_ret

\* C18 witness: turn on a crashed train and a road vehicle; both are
\* matched and only the road vehicle is turned.
C18_Witness ==
  /\ pc = "done"
  /\ con_ret = "true"
  /\ selector = "vehicle"
  /\ con_cmd.id = VEHICLE_TURN
  /\ matched = 2
  /\ Len(invoked) = 1
  /\ \E j \in 1..Len(entities) :
       /\ "VS_CRASHED" \in entities[j].vehstatus
       /\ entities[j].index \notin InvokedVehicles

\* the call has returned and CheckMatch had given it a chain
ReturnedWithChain ==
  /\ pc = "done"
  /\ con_ret \in {"true", "false"}
  /\ con_m # NullMatchInfo

\* C20: a chain that was built is deleted exactly once before the
\* dispatcher returns, on every exit path.
C20_ChainReleasedOnce == ReturnedWithChain => m_deletes = 1

\* the command is delete, of town or of industry
DeleteCommand ==
  \/ selector = "town" /\ con_cmd.id = TOWN_DELETE
  \/ selector = "industry" /\ con_cmd.id = INDUSTRY_DELETE

\* positions of the entities that match the chain
MatchingPositions ==
  {k \in 1..Len(entities) :
     IF selector = "town" THEN TownMatches(entities[k], con_m) = "true"
     ELSE IndustryMatches(entities[k], con_m) = "true"}

GroupRestricted ==
  /\ selector \in VehicleSelectors
  /\ pc \in {"loop", "done"}
  /\ group_list.list_type = "VL_GROUP_LIST"

\* C22: when the first generic criterion that names a group of the local
\* company has become the restriction of the candidate set, every vehicle
\* that is matched or acted on belongs to that group.
C22_GroupRestrictsCandidates ==
  GroupRestricted =>
    /\ \A j \in MatchedVehicles : entities[j].group_id = group_list.object_id
    /\ \A j \in 1..Len(entities) :
         entities[j].index \in InvokedVehicles =>
           entities[j].group_id = group_list.object_id

\* the criteria of the chain that the dispatcher turned into membership of
\* a group
GroupCriteria == {k \in 1..Len(con_m) : con_m[k].type = MATCH_GROUP}

\* vehicle v is in a group whose name is the literal of criterion k
InGroupNamed(v, k) ==
  /\ Group_IsValidID(v.group_id)
  /\ EqualsNoCase(groups[v.group_id].name, con_m[k].id)

\* C23: with two generic criteria that both name groups the first one
\* becomes the restriction and the other one a predicate that is true
\* exactly for the vehicles in a group of that name; the command runs to
\* its report and counts the vehicles of the restricted set that satisfy
\* the predicate.
C23_SecondGroupIsMembership ==
  (GroupRestricted /\ GroupCriteria # {} /\ pc = "done") =>
    /\ con_ret = "true"
    /\ Len(evaluated) = Len(entities)
    /\ matched = Cardinality({j \in 1..Len(entities) :
                                \A k \in GroupCriteria : InGroupNamed(entities[j], k)})

\* ------------------------------------------------------------------------
\* The generic criterion
\* ------------------------------------------------------------------------

\* the chain is one generic criterion, evaluated on a town or an industry
GenericCriterion ==
  /\ matcher \in {"TownMatches", "IndustryMatches"}
  /\ Len(arg_m) = 1
  /\ arg_m[1].type = MATCH_GENERIC

\* the display name and the identifier the generic criterion looks at
DisplayName == IF matcher = "TownMatches" THEN TownName(arg_entity) ELSE TownName(arg_entity.town)

\* C24: a generic criterion matches a town or an industry exactly when its
\* display name equals the literal, letter case ignored, or the literal is
\* an integer equal to its identifier; a literal that is no number and no
\* name matches nothing, the entity with identifier 0 included
C24_GenericMatch ==
  (GenericCriterion /\ pc = "done") =>
    ret_matches = Bool(\/ stricmp(DisplayName, arg_m[1].id) = 0
                       \/ /\ IsDecimal(arg_m[1].id)
                          /\ arg_entity.index = DecimalValue(arg_m[1].id))

\* the key of the token was given and names no criterion (it is unknown
\* or ambiguous), and the token is no special keyword of the selector
UnresolvedKey ==
  /\ ret_key # <<>>
  /\ GetMatchType(ret_key).id = 0
  /\ SpecialMatch(arg_match_id, arg_mask, 1) = 0

\* C25: a token whose key does not resolve and that is no special keyword
\* becomes a generic criterion whose literal is the whole token, also when
\* the token holds an operator
C25_UnresolvedKeyIsGeneric ==
  (pc = "done" /\ UnresolvedKey) =>
    /\ ret_m # NullMatchInfo
    /\ ret_m[1].type = MATCH_GENERIC
    /\ ret_m[1].id = arg_match_id

\* wsell was given with one parameter, a wagon number
SellsOneWagon ==
  /\ selector \in VehicleSelectors
  /\ pc \in {"loop", "done"}
  /\ con_cmd.id = TRAIN_SELL_WAGON
  /\ Len(con_argv) = 2
  /\ IsDecimal(con_argv[2])

\* the invocations of the action on a train that has the wagon numbered n
\* (0 is the head engine)
InvokedWithWagon(n) ==
  {k \in 1..Len(invoked) :
     \E j \in 1..Len(entities) :
       /\ entities[j].index = invoked[k].target
       /\ n >= 0
       /\ n < CountWagons(entities[j])}

\* the sell commands submitted so far
SellCommands == {e \in 1..Len(effects_log) : effects_log[e].op = "GetCmdSellVeh"}

\* C28: wsell with one parameter n submits one sell command for every
\* stopped train in a depot it acts on that has a wagon n
C28_WagonSell ==
  SellsOneWagon =>
    Cardinality(SellCommands) = Cardinality(InvokedWithWagon(DecimalValue(con_argv[2])))

\* a town command of the scenario editor was given outside the editor
EditorOnlyOutsideEditor ==
  /\ selector = "town"
  /\ _game_mode # "GM_EDITOR"
  /\ HasCommandToken
  /\ BitAnd(GetTownCommand(CommandToken).req, IN_EDITOR) # 0
  /\ pc \in {"loop", "done"}

\* the towns looked at so far that match the chain
MatchedTowns ==
  {entities[evaluated[n]].index : n \in {k \in 1..Len(evaluated) :
      TownMatches(entities[evaluated[k]], con_m) = "true"}}

RECURSIVE ReachesTrainOnly(_, _)
ReachesTrainOnly(v, m) ==
  IF m = NullMatchInfo THEN FALSE
  ELSE \/ ReachesTrainOnly(v, Tail(m))
       \/ /\ Head(m).type \in {MATCH_LENGTH, MATCH_WAGONS}
          /\ Tail(m) # NullMatchInfo => VehicleMatches(v, Tail(m)) = "true"

\* C26: a vehicle on which a criterion on the length or the wagons is
\* evaluated is a train, with every vehicle selector, "vehicle" included,
\* so that the assertion of the vehicle type does not fail
C26_TrainOnlyCriteriaOnTrains ==
  (selector \in VehicleSelectors /\ pc \in {"loop", "done"}) =>
    \A n \in 1..Len(evaluated) :
      ReachesTrainOnly(entities[evaluated[n]], con_m) =>
        /\ entities[evaluated[n]].type = "VEH_TRAIN"
        /\ con_ret # "assert"

\* C29: the evaluation of a chain the builder accepted ends with true or
\* false on every entity: no switch of a matcher or of NumericMatch gets to
\* its unreachable default, a key without operator ("group") included
C29_NoUnreachableBranch ==
  pc = "done" => ret_matches # "NOT_REACHED"

\* C30: with train, road, ship and aircraft every vehicle the loop looks
\* at, and so every vehicle matched or acted on, is of the subtype of the
\* selector and is owned by the local company
C30_CandidatesOfSelector ==
  (selector \in {"train", "road", "ship", "aircraft"} /\ pc \in {"loop", "done"}) =>
    \A n \in 1..Len(evaluated) :
      /\ SubtypeBit(entities[evaluated[n]]) = VehicleMask(selector)
      /\ entities[evaluated[n]].owner = _local_company

====
